---- MODULE Spec2Model ----
(***************************************************************************)
(* Ride matching and trip lifecycle of the VeloX dispatch backend.         *)
(*                                                                         *)
(* Every HTTP route handler, socket handler and timer callback is an       *)
(* async function.  Node runs the code between two awaits without          *)
(* interruption, and every awaited call is one operation on the ride       *)
(* store (Prisma) or on Redis.  A handler in flight is a task: a record    *)
(* holding its position (pc) and its local variables.  One action of the   *)
(* model is one awaited store operation together with the synchronous code *)
(* that follows it up to the next await.                                   *)
(***************************************************************************)
EXTENDS Integers, Sequences, FiniteSets, Bags, TLC

(***************************************************************************)
(* Bounds of the model.                                                    *)
(***************************************************************************)
NumRiders == 2       \* riders 1..NumRiders
NumActive == 2       \* drivers 1..NumActive hold a session and send events
FleetSize == 21      \* further drivers that only sit in the geo index (SpecFleet)
MaxRides == 2        \* ride ids 1..MaxRides
MaxRequests == 3     \* client requests and events the system receives in a run
MaxFairRequests == 2 \* the same, in the runs checked for liveness (FairSpec)
MaxEligible == 2     \* SpecFleet: eligible drivers drawn at Init
MaxPresenceRequests == 3 \* SpecPresence: presence events and requests in a run
MaxTripRequests == 3     \* SpecTrip: requests and events about the ride in a run
MaxFaultRequests == 3    \* SpecFaults: requests and events in a run
MaxSocketEvents == 4     \* SpecSockets: connections and disconnections in a run
MaxSockets == 2          \* socket ids 1..MaxSockets of each driver
MaxRoundRequests == 3    \* SpecRounds: accept events in a run
MaxPayoutRequests == 3   \* SpecPayout: payout requests and trip events in a run

(***************************************************************************)
(* Program constants.                                                      *)
(***************************************************************************)
MatchRadiusMiles == 10     \* startDriverMatching: 10 mile radius
DefaultLimit == 20         \* findNearbyDrivers: limit = 20
FanOut == 5                \* startDriverMatching: availableDrivers.slice(0, 5)

Riders == 1..NumRiders
ActiveDrivers == 1..NumActive
Drivers == 1..(NumActive + FleetSize)
RideIds == 1..MaxRides
Null == 0                  \* null / undefined of the source

ServiceTypes == {"VELOX", "VELOX_BLACK"}
PickupPoints == {0}        \* pickup coordinate (miles along a line)

ActiveStatuses == {"REQUESTED", "ACCEPTED", "ARRIVING", "ARRIVED", "IN_PROGRESS"}
TerminalStatuses == {"COMPLETED", "CANCELLED", "NO_DRIVERS"}

VARIABLES
    rides,            \* Ride table: ride id -> row (status "NONE": no such row)
    numRides,         \* number of rows of the Ride table
    drivers,          \* Driver table: driver id -> row
    earnings,         \* Earning table: sequence of rows
    earningUnique,    \* whether the schema declares Earning.rideId unique
    geoIndex,         \* Redis geo set drivers:online: driver id -> coordinate or NoPos
    driverLocKey,     \* Redis keys driver:location:{id} (TTL 300 s): coordinate or NoPos
    rideState,        \* Redis keys ride:state:{id}: the ride ids that have one
    tasks,            \* bag of the handlers in flight
    timer,            \* expiry timer of each ride: "none", "armed", "fired"
    offers,           \* ride id -> drivers that were sent ride:request
    confirmed,        \* ride id -> drivers that were sent ride:accept_confirmed
    noDriversSent,    \* ride id -> number of ride:no_drivers events emitted
    emitted,          \* the events and HTTP responses sent by the latest step
    liveSockets,      \* driver id -> the driver's sockets that are connected
    connectedDrivers, \* the Map connectedDrivers: driver id -> socket id or Null
    graceTimers,      \* driver id -> number of disconnect timers still to fire
    transfers,        \* the Stripe transfers created: sequence of records
    payouts,          \* Payout table: sequence of rows
    budget            \* number of client requests and events still to arrive

vars == <<rides, numRides, drivers, earnings, earningUnique, geoIndex, driverLocKey,
          rideState, tasks, timer, offers, confirmed,
          noDriversSent, emitted, liveSockets, connectedDrivers, graceTimers,
          transfers, payouts, budget>>

\* an event on a socket room, or an HTTP response to the caller
Ev(ev, room, id, ride) == [ev |-> ev, room |-> room, id |-> id, ride |-> ride]

NoPos == -1

NoRide == [userId |-> Null, status |-> "NONE", driverId |-> Null,
           isScheduled |-> FALSE, serviceType |-> "VELOX", pickup |-> 0,
           totalFare |-> 0, platformFee |-> 0, driverEarnings |-> 0, tip |-> 0]

\* the fields of a ride row that hold money, in cents
FareFields == {"totalFare", "platformFee", "driverEarnings"}

(***************************************************************************)
(* Tasks.                                                                  *)
(***************************************************************************)
Task(op, pc, who, ride, snap, list) ==
    [op |-> op, pc |-> pc, who |-> who, ride |-> ride, snap |-> snap, list |-> list]

Spawn(bag, t) == bag (+) SetToBag({t})
Retire(bag, t) == bag (-) SetToBag({t})
Step(t, t2) == Spawn(Retire(tasks, t), t2)

\* a client request or event arrives
Arrives == budget > 0 /\ budget' = budget - 1
InFlight(op, pcs) ==
    BagCardinality([t \in {x \in BagToSet(tasks) : x.op = op /\ x.pc \in pcs} |-> tasks[t]])

RideExists(r) == r \in 1..numRides

\* the local variable holding a row that was read: the fields the handler
\* uses after the read
Local(row, fields) ==
    [f \in DOMAIN NoRide |-> IF f \in fields THEN row[f] ELSE NoRide[f]]


(***************************************************************************)
(* Redis: geo index and live ride state (config/redis.js).                 *)
(***************************************************************************)
Dist(a, b) == IF a >= b THEN a - b ELSE b - a

\* the entry of S that GEORADIUS ... ASC lists first; the order of entries at
\* equal distance is not specified by Redis: tie picks one of two orders
Nearest(S, at, tie) ==
    CHOOSE d \in S : \A e \in S \ {d} :
        \/ Dist(geoIndex[d], at) < Dist(geoIndex[e], at)
        \/ /\ Dist(geoIndex[d], at) = Dist(geoIndex[e], at)
           /\ IF tie = "lo" THEN d < e ELSE d > e

RECURSIVE SortAsc(_, _, _)
SortAsc(S, at, tie) ==
    IF S = {} THEN <<>>
    ELSE LET d == Nearest(S, at, tie)
         IN  <<[driverId |-> d, distanceMiles |-> Dist(geoIndex[d], at)]>>
                 \o SortAsc(S \ {d}, at, tie)

Take(seq, n) == SubSeq(seq, 1, IF Len(seq) < n THEN Len(seq) ELSE n)

\* the same query with DESC in place of ASC: farthest first
findNearbyDriversDesc(at, radiusMiles, limit, tie) ==
    LET asc == SortAsc({d \in Drivers : geoIndex[d] # NoPos
                                         /\ Dist(geoIndex[d], at) <= radiusMiles},
                       at, tie)
    IN  Take([i \in 1..Len(asc) |-> asc[Len(asc) + 1 - i]], limit)

\* georadius(drivers:online, lng, lat, radiusMiles, 'mi', WITHDIST, ASC, COUNT limit)
findNearbyDrivers(at, radiusMiles, limit, tie) ==
    Take(SortAsc({d \in Drivers : geoIndex[d] # NoPos /\ Dist(geoIndex[d], at) <= radiusMiles},
                 at, tie),
         limit)

\* the same filter without the test of the driver's status
getAvailableDriversAnyStatus(nearbyDrivers, serviceType) ==
    LET Available(e) == /\ drivers[e.driverId].isOnline
                        /\ serviceType \in drivers[e.driverId].serviceTypes
    IN  SelectSeq(nearbyDrivers, Available)

\* prisma.driver.findMany({id in ids, status APPROVED, isOnline, serviceTypes has})
\* followed by nearbyDrivers.filter(...)
getAvailableDriversForService(nearbyDrivers, serviceType) ==
    LET Available(e) == /\ drivers[e.driverId].status = "APPROVED"
                        /\ drivers[e.driverId].isOnline
                        /\ serviceType \in drivers[e.driverId].serviceTypes
    IN  SelectSeq(nearbyDrivers, Available)

\* a clearRideState that leaves the key in place
clearRideStateNothing(state, r) == state

\* client.del(ride:state:{rideId})
clearRideState(state, r) == state \ {r}

\* client.setex(ride:state:{rideId}, 3600, state)
setRideState(state, r) == state \cup {r}

SeqDrivers(seq) == {seq[i].driverId : i \in 1..Len(seq)}

(***************************************************************************)
(* Pricing (utils/pricing.js).  Amounts are in cents.                      *)
(***************************************************************************)
PRICING ==
    [VELOX |-> [baseFare |-> 300, perMile |-> 175, perMinute |-> 25,
                minFare |-> 700, bookingFee |-> 250],
     VELOX_BLACK |-> [baseFare |-> 800, perMile |-> 350, perMinute |-> 50,
                      minFare |-> 1500, bookingFee |-> 300]]

\* totalFare of calculateFare with surgeMultiplier 1.0
calculateFare(distanceMiles, durationMinutes, serviceType) ==
    LET pricing == PRICING[serviceType]
        total == pricing.baseFare + distanceMiles * pricing.perMile
                     + durationMinutes * pricing.perMinute + pricing.bookingFee
    IN  IF total < pricing.minFare THEN pricing.minFare ELSE total

\* the trips riders ask for: miles from pickup to dropoff
TripMiles == {2}

\* const duration = Math.ceil(distance * 2.5 + 5)
TripDuration(distance) == (5 * distance + 1) \div 2 + 5

PlatformFeePercent == 20

\* the discounts of the promo codes in use, in cents (0: no promo code)
PromoDiscounts == {0, 150}

\* the money fields POST /request computes for the row it creates
FareOf(distance, serviceType, promoDiscount) ==
    LET totalFare == calculateFare(distance, TripDuration(distance), serviceType)
                         - promoDiscount
        platformFee == (totalFare * PlatformFeePercent) \div 100
    IN  [totalFare |-> totalFare, platformFee |-> platformFee,
         driverEarnings |-> totalFare - platformFee]

(***************************************************************************)
(* POST /api/rides/request (routes/rides.js).                              *)
(***************************************************************************)
\* whether POST /request starts matching for the row it created
MatchingStartsAlways(row) == TRUE

\* if (!scheduledFor) startDriverMatching(ride.id, io)
MatchingStarts(row) == ~row.isScheduled

RequestsBeforeCreate == InFlight("request", {"create"})

HasActiveRide(u) ==
    \E r \in 1..numRides : rides[r].userId = u /\ rides[r].status \in ActiveStatuses

\* the request arrives and prisma.ride.findFirst resolves: 400 when the rider
\* has an active ride, else prisma.ride.create is issued
RequestRide(u, sched, svc, at) ==
    /\ Arrives
    /\ numRides + RequestsBeforeCreate < MaxRides
    /\ IF HasActiveRide(u)
       THEN /\ emitted' = {Ev("http:400", "user", u, Null)}
            /\ tasks' = tasks
       ELSE /\ \E miles \in TripMiles :
                   LET fare == FareOf(miles, svc, 0) IN
                   tasks' = Spawn(tasks, Task("request", "create", u, Null,
                                [NoRide EXCEPT !.userId = u, !.isScheduled = sched,
                                               !.serviceType = svc, !.pickup = at,
                                               !.totalFare = fare.totalFare,
                                               !.platformFee = fare.platformFee,
                                               !.driverEarnings = fare.driverEarnings],
                                <<>>))
            /\ emitted' = {}
    /\ UNCHANGED <<rides, numRides, drivers, earnings, earningUnique, driverLocKey,
                   geoIndex, rideState, timer, offers, confirmed, noDriversSent,
                   liveSockets, connectedDrivers, graceTimers, transfers, payouts>>

\* create resolves: the row exists with status REQUESTED; setRideState is issued
RequestCreate(t) ==
    /\ t.op = "request" /\ t.pc = "create"
    /\ numRides < MaxRides
    /\ numRides' = numRides + 1
    /\ rides' = [rides EXCEPT ![numRides + 1] = [t.snap EXCEPT !.status = "REQUESTED"]]
    /\ tasks' = Step(t, [t EXCEPT !.pc = "setRideState", !.ride = numRides + 1])
    /\ emitted' = {}
    /\ UNCHANGED <<drivers, earnings, earningUnique, driverLocKey, geoIndex,
                   rideState, timer, offers, confirmed, noDriversSent, budget,
                   liveSockets, connectedDrivers, graceTimers, transfers, payouts>>

\* setRideState resolves; startDriverMatching is called unless the ride is
\* scheduled (it runs up to its first await); the 201 response is sent
RequestSetRideState(t) ==
    /\ t.op = "request" /\ t.pc = "setRideState"
    /\ rideState' = setRideState(rideState, t.ride)
    /\ tasks' = IF MatchingStarts(t.snap)
                THEN Step(t, Task("match", "findRide", Null, t.ride, NoRide, <<>>))
                ELSE Retire(tasks, t)
    /\ emitted' = {Ev("http:201", "user", t.who, t.ride)}
    /\ UNCHANGED <<rides, numRides, drivers, earnings, earningUnique, driverLocKey,
                   geoIndex, timer, offers, confirmed, noDriversSent, budget,
                   liveSockets, connectedDrivers, graceTimers, transfers, payouts>>

(***************************************************************************)
(* startDriverMatching and its expiry timer (routes/rides.js).             *)
(***************************************************************************)
\* a timer that fires again and again (setInterval in place of setTimeout)
AfterFireRepeating(r) == "armed"

\* the timer state after setTimeout's callback has been invoked: one shot
AfterFire(r) == "fired"

\* prisma.ride.findUnique resolves; findNearbyDrivers is issued
MatchFindRide(t) ==
    /\ t.op = "match" /\ t.pc = "findRide"
    /\ tasks' = IF RideExists(t.ride)
                THEN Step(t, [t EXCEPT !.pc = "findNearby",
                                      !.snap = Local(rides[t.ride],
                                                     {"userId", "pickup", "serviceType"})])
                ELSE Retire(tasks, t)
    /\ emitted' = {}
    /\ UNCHANGED <<rides, numRides, drivers, earnings, earningUnique, driverLocKey,
                   geoIndex, rideState, timer, offers, confirmed, noDriversSent,
                   budget, liveSockets, connectedDrivers, graceTimers, transfers,
                   payouts>>

\* georadius resolves; getAvailableDriversForService returns [] at once for an
\* empty list (the NO_DRIVERS update is issued), else it issues driver.findMany
MatchFindNearby(t, tie) ==
    /\ t.op = "match" /\ t.pc = "findNearby"
    /\ LET nearbyDrivers == findNearbyDrivers(t.snap.pickup, MatchRadiusMiles, DefaultLimit, tie)
       IN  tasks' = Step(t, [t EXCEPT !.list = nearbyDrivers,
                                      !.pc = IF Len(nearbyDrivers) = 0 THEN "noDrivers"
                                             ELSE "findMany"])
    /\ emitted' = {}
    /\ UNCHANGED <<rides, numRides, drivers, earnings, earningUnique, driverLocKey,
                   geoIndex, rideState, timer, offers, confirmed, noDriversSent,
                   budget, liveSockets, connectedDrivers, graceTimers, transfers,
                   payouts>>

\* driver.findMany resolves: with no available driver the NO_DRIVERS update is
\* issued; else ride:request goes to the first FanOut of them and the timer is set
MatchFilter(t) ==
    /\ t.op = "match" /\ t.pc = "findMany"
    /\ LET availableDrivers == getAvailableDriversForService(t.list, t.snap.serviceType)
           driversToNotify == Take(availableDrivers, FanOut)
       IN  IF Len(availableDrivers) = 0
           THEN /\ tasks' = Step(t, [t EXCEPT !.pc = "noDrivers", !.list = <<>>])
                /\ emitted' = {}
                /\ UNCHANGED <<offers, timer>>
           ELSE /\ tasks' = Retire(tasks, t)
                /\ offers' = [offers EXCEPT ![t.ride] = @ \cup SeqDrivers(driversToNotify)]
                /\ emitted' = {Ev("ride:request", "driver", d, t.ride) :
                                   d \in SeqDrivers(driversToNotify)}
                /\ timer' = [timer EXCEPT ![t.ride] = "armed"]
    /\ UNCHANGED <<rides, numRides, drivers, earnings, earningUnique, driverLocKey,
                   geoIndex, rideState, confirmed, noDriversSent, budget,
                   liveSockets, connectedDrivers, graceTimers, transfers, payouts>>

\* a handler that tells the rider without having written anything
NotifyNoDriversUnwritten(t) ==
    /\ rides' = rides
    /\ noDriversSent' = [noDriversSent EXCEPT ![t.ride] = @ + 1]
    /\ emitted' = {Ev("ride:no_drivers", "user", t.snap.userId, t.ride)}
    /\ tasks' = Retire(tasks, t)

\* ride.update({status: NO_DRIVERS}) resolves, then ride:no_drivers is emitted
\* to the rider (zero-candidate path of startDriverMatching and timer callback)
WriteNoDrivers(t) ==
    /\ rides' = [rides EXCEPT ![t.ride].status = "NO_DRIVERS"]
    /\ noDriversSent' = [noDriversSent EXCEPT ![t.ride] = @ + 1]
    /\ emitted' = {Ev("ride:no_drivers", "user", t.snap.userId, t.ride)}
    /\ tasks' = Retire(tasks, t)

MatchNoDrivers(t) ==
    /\ t.op = "match" /\ t.pc = "noDrivers"
    /\ WriteNoDrivers(t)
    /\ UNCHANGED <<numRides, drivers, earnings, earningUnique, driverLocKey,
                   geoIndex, rideState, timer, offers, confirmed, budget,
                   liveSockets, connectedDrivers, graceTimers, transfers, payouts>>

\* a callback that tests for the wrong status and so never expires a ride
ExpiryAppliesWrongStatus(row) == row.status = "NO_DRIVERS"

\* the status on which the timer callback goes on to write NO_DRIVERS
ExpiryApplies(row) == row.status = "REQUESTED"

\* the 30 s have passed: the callback runs and its findUnique resolves; the
\* NO_DRIVERS update is issued only when the row read says REQUESTED
TimerFire(r) ==
    /\ timer[r] = "armed"
    /\ timer' = [timer EXCEPT ![r] = AfterFire(r)]
    /\ tasks' = IF RideExists(r) /\ ExpiryApplies(rides[r])
                THEN Spawn(tasks, Task("expiry", "noDrivers", Null, r,
                                       Local(rides[r], {"userId"}), <<>>))
                ELSE tasks
    /\ emitted' = {}
    /\ UNCHANGED <<rides, numRides, drivers, earnings, earningUnique, driverLocKey,
                   geoIndex, rideState, offers, confirmed, noDriversSent, budget,
                   liveSockets, connectedDrivers, graceTimers, transfers, payouts>>

TimerNoDrivers(t) ==
    /\ t.op = "expiry" /\ t.pc = "noDrivers"
    /\ WriteNoDrivers(t)
    /\ UNCHANGED <<numRides, drivers, earnings, earningUnique, driverLocKey,
                   geoIndex, rideState, timer, offers, confirmed, budget,
                   liveSockets, connectedDrivers, graceTimers, transfers, payouts>>


(***************************************************************************)
(* Driver events (services/socketService.js).                              *)
(***************************************************************************)
\* a test that lets an accepted ride be accepted again
AcceptAllowedAgain(row) == row.status \in {"REQUESTED", "ACCEPTED"}

\* the test of the accept handler on the row it read
AcceptAllowed(row) == row.status = "REQUESTED"

\* driver:accept_ride arrives and ride.findUnique resolves: ride:accept_failed
\* unless the row exists with status REQUESTED, else driver.findUnique is issued
AcceptRide(d, r) ==
    /\ Arrives
    /\ IF ~RideExists(r) \/ ~AcceptAllowed(rides[r])
       THEN /\ emitted' = {Ev("ride:accept_failed", "driver", d, r)}
            /\ tasks' = tasks
       ELSE /\ tasks' = Spawn(tasks, Task("accept", "findDriver", d, r,
                                  Local(rides[r], {"userId"}), <<>>))
            /\ emitted' = {}
    /\ UNCHANGED <<rides, numRides, drivers, earnings, earningUnique, driverLocKey,
                   geoIndex, rideState, timer, offers, confirmed, noDriversSent,
                   liveSockets, connectedDrivers, graceTimers, transfers, payouts>>

\* driver.findUnique resolves; ride.update is issued
AcceptFindDriver(t) ==
    /\ t.op = "accept" /\ t.pc = "findDriver"
    /\ tasks' = Step(t, [t EXCEPT !.pc = "update"])
    /\ emitted' = {}
    /\ UNCHANGED <<rides, numRides, drivers, earnings, earningUnique, driverLocKey,
                   geoIndex, rideState, timer, offers, confirmed, noDriversSent,
                   budget, liveSockets, connectedDrivers, graceTimers, transfers,
                   payouts>>

\* ride.update({driverId, status: ACCEPTED}) resolves; ride:accepted goes to the
\* rider and ride:accept_confirmed to the driver
AcceptUpdate(t) ==
    /\ t.op = "accept" /\ t.pc = "update"
    /\ rides' = [rides EXCEPT ![t.ride].driverId = t.who, ![t.ride].status = "ACCEPTED"]
    /\ confirmed' = [confirmed EXCEPT ![t.ride] = @ \cup {t.who}]
    /\ emitted' = {Ev("ride:accepted", "user", t.snap.userId, t.ride),
                   Ev("ride:accept_confirmed", "driver", t.who, t.ride)}
    /\ tasks' = Retire(tasks, t)
    /\ UNCHANGED <<numRides, drivers, earnings, earningUnique, driverLocKey,
                   geoIndex, rideState, timer, offers, noDriversSent, budget,
                   liveSockets, connectedDrivers, graceTimers, transfers, payouts>>

\* driver:arrived: ride.update({status: ARRIVED}) resolves (it throws for an
\* unknown id), then ride:driver_arrived is emitted
DriverArrived(d, r) ==
    /\ Arrives
    /\ RideExists(r)
    /\ rides' = [rides EXCEPT ![r].status = "ARRIVED"]
    /\ emitted' = {Ev("ride:driver_arrived", "user", rides[r].userId, r)}
    /\ UNCHANGED <<numRides, drivers, earnings, earningUnique, driverLocKey,
                   geoIndex, rideState, tasks, timer, offers, confirmed,
                   noDriversSent, liveSockets, connectedDrivers, graceTimers,
                   transfers, payouts>>

\* driver:start_trip: ride.update({status: IN_PROGRESS}) resolves, then
\* ride:trip_started is emitted
StartTrip(d, r) ==
    /\ Arrives
    /\ RideExists(r)
    /\ rides' = [rides EXCEPT ![r].status = "IN_PROGRESS"]
    /\ emitted' = {Ev("ride:trip_started", "user", rides[r].userId, r)}
    /\ UNCHANGED <<numRides, drivers, earnings, earningUnique, driverLocKey,
                   geoIndex, rideState, tasks, timer, offers, confirmed,
                   noDriversSent, liveSockets, connectedDrivers, graceTimers,
                   transfers, payouts>>

EarningsOf(r) == {i \in 1..Len(earnings) : earnings[i].rideId = r}

\* driver:complete_trip arrives and ride.update({status: COMPLETED}) resolves;
\* earning.create is issued
CompleteTrip(d, r) ==
    /\ Arrives
    /\ RideExists(r)
    /\ rides' = [rides EXCEPT ![r].status = "COMPLETED"]
    /\ tasks' = Spawn(tasks, Task("complete", "createEarning", d, r,
                                  Local(rides[r], {"userId", "driverId", "tip"}
                                                      \cup FareFields), <<>>))
    /\ emitted' = {}
    /\ UNCHANGED <<numRides, drivers, earnings, earningUnique, driverLocKey,
                   geoIndex, rideState, timer, offers, confirmed, noDriversSent,
                   liveSockets, connectedDrivers, graceTimers, transfers, payouts>>

\* earning.create resolves (it throws P2002 when rideId is unique and taken, and
\* the handler ends there); driver.update is issued
CompleteCreateEarning(t) ==
    /\ t.op = "complete" /\ t.pc = "createEarning"
    /\ IF earningUnique /\ EarningsOf(t.ride) # {}
       THEN /\ tasks' = Retire(tasks, t)
            /\ earnings' = earnings
       ELSE /\ earnings' = Append(earnings,
                                  [driverId |-> t.who, rideId |-> t.ride,
                                   grossAmount |-> t.snap.totalFare,
                                   platformFee |-> t.snap.platformFee,
                                   netAmount |-> t.snap.driverEarnings,
                                   tip |-> t.snap.tip, status |-> "PENDING",
                                   payoutId |-> Null])
            /\ tasks' = Step(t, [t EXCEPT !.pc = "updateDriver"])
    /\ emitted' = {}
    /\ UNCHANGED <<rides, numRides, drivers, earningUnique, driverLocKey, geoIndex,
                   rideState, timer, offers, confirmed, noDriversSent, budget,
                   liveSockets, connectedDrivers, graceTimers, transfers, payouts>>

\* driver.update({totalRides: increment 1, ...}) resolves; clearRideState is issued
CompleteUpdateDriver(t) ==
    /\ t.op = "complete" /\ t.pc = "updateDriver"
    /\ drivers' = [drivers EXCEPT ![t.who].totalRides = @ + 1,
                                  ![t.who].totalEarnings = @ + t.snap.driverEarnings]
    /\ tasks' = Step(t, [t EXCEPT !.pc = "clearRideState"])
    /\ emitted' = {}
    /\ UNCHANGED <<rides, numRides, earnings, earningUnique, driverLocKey, geoIndex,
                   rideState, timer, offers, confirmed, noDriversSent, budget,
                   liveSockets, connectedDrivers, graceTimers, transfers, payouts>>

\* clearRideState resolves; ride:completed and ride:complete_confirmed are
\* emitted, unless building the payload throws: ride.driver is null when the
\* row updated had no driverId
CompleteClearRideState(t) ==
    /\ t.op = "complete" /\ t.pc = "clearRideState"
    /\ rideState' = clearRideState(rideState, t.ride)
    /\ emitted' = IF t.snap.driverId = Null THEN {}
                  ELSE {Ev("ride:completed", "user", t.snap.userId, t.ride),
                        Ev("ride:complete_confirmed", "driver", t.who, t.ride)}
    /\ tasks' = Retire(tasks, t)
    /\ UNCHANGED <<rides, numRides, drivers, earnings, earningUnique, driverLocKey,
                   geoIndex, timer, offers, confirmed, noDriversSent, budget,
                   liveSockets, connectedDrivers, graceTimers, transfers, payouts>>

(***************************************************************************)
(* POST /api/rides/:id/cancel (routes/rides.js).                           *)
(***************************************************************************)
CancellationFee == 5

\* a fee charged to whoever cancels
cancellationFeeForAll(row, userType) == CancellationFee

\* let cancellationFee = 0; if (ride.driverId && userType === 'user') 5.00
cancellationFee(row, userType) ==
    IF row.driverId # Null /\ userType = "user" THEN CancellationFee ELSE 0

\* the checks of the cancel handler on the row it read: the HTTP status of the
\* refusal, or 200 when the handler goes on
CancelCheck(row, userType, userId) ==
    IF row.status = "NONE" THEN 404
    ELSE IF userType = "user" /\ row.userId # userId THEN 403
    ELSE IF userType = "driver" /\ row.driverId # userId THEN 403
    ELSE IF row.status \in {"COMPLETED", "CANCELLED"} THEN 400
    ELSE 200

HttpEv(code) == IF code = 404 THEN "http:404" ELSE IF code = 403 THEN "http:403"
                ELSE IF code = 400 THEN "http:400" ELSE "http:200"

\* the request arrives and ride.findUnique resolves; after the checks the fee
\* is fixed from the row read and ride.update is issued
CancelRide(userType, userId, r) ==
    /\ Arrives
    /\ LET row == IF RideExists(r) THEN rides[r] ELSE NoRide
           code == CancelCheck(row, userType, userId)
       IN  IF code # 200
           THEN /\ emitted' = {Ev(HttpEv(code), userType, userId, r)}
                /\ tasks' = tasks
           ELSE /\ tasks' = Spawn(tasks, Task("cancel", "update", userId, r,
                                   Local(row, {"driverId"}),
                                   <<userType, cancellationFee(row, userType)>>))
                /\ emitted' = {}
    /\ UNCHANGED <<rides, numRides, drivers, earnings, earningUnique, driverLocKey,
                   geoIndex, rideState, timer, offers, confirmed, noDriversSent,
                   liveSockets, connectedDrivers, graceTimers, transfers, payouts>>

\* ride.update({status: CANCELLED, ...}) resolves; clearRideState is issued
CancelUpdate(t) ==
    /\ t.op = "cancel" /\ t.pc = "update"
    /\ rides' = [rides EXCEPT ![t.ride].status = "CANCELLED"]
    /\ tasks' = Step(t, [t EXCEPT !.pc = "clearRideState"])
    /\ emitted' = {}
    /\ UNCHANGED <<numRides, drivers, earnings, earningUnique, driverLocKey,
                   geoIndex, rideState, timer, offers, confirmed, noDriversSent,
                   budget, liveSockets, connectedDrivers, graceTimers, transfers,
                   payouts>>

\* clearRideState resolves; ride:cancelled is emitted and the fee is returned
CancelClearRideState(t) ==
    /\ t.op = "cancel" /\ t.pc = "clearRideState"
    /\ rideState' = clearRideState(rideState, t.ride)
    /\ emitted' = {[Ev("ride:cancelled", "ride", t.ride, t.ride) EXCEPT !.id = t.list[2]],
                   Ev("http:200", t.list[1], t.who, t.ride)}
    /\ tasks' = Retire(tasks, t)
    /\ UNCHANGED <<rides, numRides, drivers, earnings, earningUnique, driverLocKey,
                   geoIndex, timer, offers, confirmed, noDriversSent, budget,
                   liveSockets, connectedDrivers, graceTimers, transfers, payouts>>

(***************************************************************************)
(* POST /api/rides/:id/tip (routes/rides.js).                              *)
(***************************************************************************)
\* the tips riders send, in cents
TipAmounts == {100, 200}

\* a test that lets a ride be tipped whatever its status
TipCheckAnyStatus(row, userId) ==
    IF row.status = "NONE" \/ row.userId # userId THEN 404 ELSE 200

\* the checks of the tip handler on the row it read
TipCheck(row, userId) ==
    IF row.status = "NONE" \/ row.userId # userId THEN 404
    ELSE IF row.status # "COMPLETED" THEN 400
    ELSE 200

\* the request arrives and ride.findUnique resolves; after the checks
\* ride.update({tip: amount}) is issued
TipRide(u, r, amount) ==
    /\ Arrives
    /\ LET row == IF RideExists(r) THEN rides[r] ELSE NoRide
           code == TipCheck(row, u)
       IN  IF code # 200
           THEN /\ emitted' = {Ev(HttpEv(code), "user", u, r)}
                /\ tasks' = tasks
           ELSE /\ tasks' = Spawn(tasks, Task("tip", "update", u, r,
                                              Local(row, {"driverId"}), <<amount>>))
                /\ emitted' = {}
    /\ UNCHANGED <<rides, numRides, drivers, earnings, earningUnique, driverLocKey,
                   geoIndex, rideState, timer, offers, confirmed, noDriversSent,
                   liveSockets, connectedDrivers, graceTimers, transfers, payouts>>

\* ride.update({tip}) resolves; with a driver on the row read earning.updateMany
\* is issued, else the response is sent
TipUpdate(t) ==
    /\ t.op = "tip" /\ t.pc = "update"
    /\ rides' = [rides EXCEPT ![t.ride].tip = t.list[1]]
    /\ IF t.snap.driverId # Null
       THEN /\ tasks' = Step(t, [t EXCEPT !.pc = "updateMany"])
            /\ emitted' = {}
       ELSE /\ tasks' = Retire(tasks, t)
            /\ emitted' = {Ev("http:200", "user", t.who, t.ride)}
    /\ UNCHANGED <<numRides, drivers, earnings, earningUnique, driverLocKey,
                   geoIndex, rideState, timer, offers, confirmed, noDriversSent,
                   liveSockets, connectedDrivers, graceTimers, budget, transfers,
                   payouts>>

\* earning.updateMany({where: {rideId}, data: {tip}}) resolves; the response is sent
TipUpdateMany(t) ==
    /\ t.op = "tip" /\ t.pc = "updateMany"
    /\ earnings' = [i \in DOMAIN earnings |->
                        IF earnings[i].rideId = t.ride
                        THEN [earnings[i] EXCEPT !.tip = t.list[1]] ELSE earnings[i]]
    /\ tasks' = Retire(tasks, t)
    /\ emitted' = {Ev("http:200", "user", t.who, t.ride)}
    /\ UNCHANGED <<rides, numRides, drivers, earningUnique, driverLocKey, geoIndex,
                   rideState, timer, offers, confirmed, noDriversSent, liveSockets,
                   connectedDrivers, graceTimers, budget, transfers, payouts>>

(***************************************************************************)
(* POST /api/payments/driver/payout/instant (unnamed/part_007).            *)
(* Money is in cents.  A payout task keeps its locals in list:             *)
(* <<totalAmount, transfer.id, payout.id>> followed by earnings.map(e.id). *)
(***************************************************************************)
InstantFeeBasisPoints == 150
MinimumPayout == 5

\* the ids of the rows earning.findMany({driverId, status: PENDING}) returns
PendingEarnings(d) ==
    SelectSeq([i \in 1..Len(earnings) |-> i],
              LAMBDA i : earnings[i].driverId = d /\ earnings[i].status = "PENDING")

\* earnings.reduce((sum, e) => sum + e.netAmount + e.tip, 0)
RECURSIVE TotalAmount(_)
TotalAmount(ids) ==
    IF ids = <<>> THEN 0
    ELSE earnings[Head(ids)].netAmount + earnings[Head(ids)].tip + TotalAmount(Tail(ids))

\* netAmount < 5, with netAmount = totalAmount - totalAmount * 0.015
BelowMinimum(totalAmount) ==
    totalAmount * (10000 - InstantFeeBasisPoints) < MinimumPayout * 100 * 10000

\* Math.round(netAmount * 100), netAmount in dollars
TransferAmount(totalAmount) ==
    (totalAmount * (10000 - InstantFeeBasisPoints) + 5000) \div 10000

\* earnings.map(e => e.id) of a payout task
PayoutIds(t) == {t.list[k] : k \in 4..Len(t.list)}

\* the request arrives and driver.findUnique resolves; a driver who has not
\* finished Stripe onboarding is refused, else earning.findMany is issued
PayoutInstant(d) ==
    /\ Arrives
    /\ IF ~drivers[d].stripeOnboarded
       THEN /\ emitted' = {Ev("http:400", "driver", d, Null)}
            /\ tasks' = tasks
       ELSE /\ tasks' = Spawn(tasks, Task("payout", "findMany", d, Null, NoRide, <<>>))
            /\ emitted' = {}
    /\ UNCHANGED <<rides, numRides, drivers, earnings, earningUnique, driverLocKey,
                   geoIndex, rideState, timer, offers, confirmed, noDriversSent,
                   liveSockets, connectedDrivers, graceTimers, transfers, payouts>>

\* earning.findMany resolves; with no pending earning or less than the minimum
\* the request is refused, else stripe.transfers.create is issued
PayoutFindMany(t) ==
    /\ t.op = "payout" /\ t.pc = "findMany"
    /\ LET ids == PendingEarnings(t.who)
           totalAmount == TotalAmount(ids)
       IN  IF ids = <<>> \/ BelowMinimum(totalAmount)
           THEN /\ tasks' = Retire(tasks, t)
                /\ emitted' = {Ev("http:400", "driver", t.who, Null)}
           ELSE /\ tasks' = Step(t, [t EXCEPT !.pc = "transfer",
                                              !.list = <<totalAmount, Null, Null>> \o ids])
                /\ emitted' = {}
    /\ UNCHANGED <<rides, numRides, drivers, earnings, earningUnique, driverLocKey,
                   geoIndex, rideState, timer, offers, confirmed, noDriversSent,
                   liveSockets, connectedDrivers, graceTimers, budget, transfers,
                   payouts>>

\* stripe.transfers.create resolves: the money of the earnings read has left;
\* payout.create is issued
PayoutTransfer(t) ==
    /\ t.op = "payout" /\ t.pc = "transfer"
    /\ transfers' = Append(transfers, [driverId |-> t.who,
                                       amount |-> TransferAmount(t.list[1]),
                                       earnings |-> PayoutIds(t)])
    /\ tasks' = Step(t, [t EXCEPT !.pc = "createPayout",
                                  !.list[2] = Len(transfers) + 1])
    /\ emitted' = {}
    /\ UNCHANGED <<rides, numRides, drivers, earnings, earningUnique, driverLocKey,
                   geoIndex, rideState, timer, offers, confirmed, noDriversSent,
                   liveSockets, connectedDrivers, graceTimers, budget, payouts>>

\* payout.create resolves; earning.updateMany is issued
PayoutCreate(t) ==
    /\ t.op = "payout" /\ t.pc = "createPayout"
    /\ payouts' = Append(payouts, [driverId |-> t.who, amount |-> t.list[1],
                                   status |-> "PROCESSING",
                                   stripeTransferId |-> t.list[2]])
    /\ tasks' = Step(t, [t EXCEPT !.pc = "updateMany", !.list[3] = Len(payouts) + 1])
    /\ emitted' = {}
    /\ UNCHANGED <<rides, numRides, drivers, earnings, earningUnique, driverLocKey,
                   geoIndex, rideState, timer, offers, confirmed, noDriversSent,
                   liveSockets, connectedDrivers, graceTimers, budget, transfers>>

\* earning.updateMany({where: {id: {in: ids}}, data: {status: PAID_OUT, payoutId}})
\* resolves; the response is sent
PayoutUpdateMany(t) ==
    /\ t.op = "payout" /\ t.pc = "updateMany"
    /\ earnings' = [i \in DOMAIN earnings |->
                        IF i \in PayoutIds(t)
                        THEN [earnings[i] EXCEPT !.status = "PAID_OUT",
                                                 !.payoutId = t.list[3]]
                        ELSE earnings[i]]
    /\ tasks' = Retire(tasks, t)
    /\ emitted' = {Ev("http:200", "driver", t.who, Null)}
    /\ UNCHANGED <<rides, numRides, drivers, earningUnique, driverLocKey, geoIndex,
                   rideState, timer, offers, confirmed, noDriversSent, liveSockets,
                   connectedDrivers, graceTimers, budget, transfers, payouts>>

(***************************************************************************)
(* Failures of the ride store and of Redis: an awaited call rejects and    *)
(* leaves the data as it was.                                              *)
(***************************************************************************)
\* a catch block that tells the driver nothing
AcceptCatchSilent(d, r) == {}

\* catch (err) { socket.emit('ride:accept_failed', ...) }
AcceptCatch(d, r) == {Ev("ride:accept_failed", "driver", d, r)}

\* driver:accept_ride arrives and ride.findUnique rejects
AcceptRideThrows(d, r) ==
    /\ Arrives
    /\ emitted' = AcceptCatch(d, r)
    /\ UNCHANGED <<rides, numRides, drivers, earnings, earningUnique, driverLocKey,
                   geoIndex, rideState, tasks, timer, offers, confirmed,
                   noDriversSent, liveSockets, connectedDrivers, graceTimers,
                   transfers, payouts>>

\* a handler whose write is applied before the failure is reported
AcceptThrowsAfterWrite(t) ==
    /\ t.op = "accept" /\ t.pc \in {"findDriver", "update"}
    /\ rides' = [rides EXCEPT ![t.ride].driverId = t.who, ![t.ride].status = "ACCEPTED"]
    /\ tasks' = Retire(tasks, t)
    /\ emitted' = AcceptCatch(t.who, t.ride)
    /\ UNCHANGED <<numRides, drivers, earnings, earningUnique, driverLocKey,
                   geoIndex, rideState, timer, offers, confirmed, noDriversSent,
                   liveSockets, connectedDrivers, graceTimers, budget, transfers,
                   payouts>>

\* driver.findUnique or ride.update of the accept handler rejects
AcceptThrows(t) ==
    /\ t.op = "accept" /\ t.pc \in {"findDriver", "update"}
    /\ tasks' = Retire(tasks, t)
    /\ emitted' = AcceptCatch(t.who, t.ride)
    /\ UNCHANGED <<rides, numRides, drivers, earnings, earningUnique, driverLocKey,
                   geoIndex, rideState, timer, offers, confirmed, noDriversSent,
                   liveSockets, connectedDrivers, graceTimers, budget, transfers,
                   payouts>>

\* what becomes of a rejection inside startDriverMatching or inside the timer
\* callback: neither has a try/catch and the caller attaches no handler, so
\* the promise is rejected with nobody listening
MatchCatch(t) == {Ev("unhandledRejection", "process", Null, t.ride)}

\* an awaited call of startDriverMatching (ride.findUnique, georadius,
\* driver.findMany, ride.update) or the timer callback's ride.update rejects:
\* the function ends there
MatchThrows(t) ==
    /\ t.op \in {"match", "expiry"}
    /\ tasks' = Retire(tasks, t)
    /\ emitted' = MatchCatch(t)
    /\ UNCHANGED <<rides, numRides, drivers, earnings, earningUnique, driverLocKey,
                   geoIndex, rideState, timer, offers, confirmed, noDriversSent,
                   liveSockets, connectedDrivers, graceTimers, budget, transfers,
                   payouts>>

(***************************************************************************)
(* Driver presence (services/socketService.js, the driver routes, and      *)
(* config/redis.js).  A position is a coordinate along a line, in miles;   *)
(* OutOfRange stands for a latitude or longitude outside [-90, 90] /       *)
(* [-180, 180].                                                            *)
(***************************************************************************)
OutOfRange == 999

\* the coordinates a driver sends
ReportedPoints == {2, 12, OutOfRange}

\* GEOADD refuses a pair outside the valid ranges with an error
ValidPosition(p) == p # OutOfRange

PresenceOps == {"online", "offline", "location", "postLocation", "status"}

\* the handlers that run updateDriverLocation or removeDriverFromPool
PoolOps == PresenceOps \cup {"grace"}

\* the presence handlers of driver d that are in flight
PresenceTasks(d) == {t \in BagToSet(tasks) : t.op \in PresenceOps /\ t.who = d}

\* a removal that deletes the location key but leaves the member in the geo set
ZRemNothing(idx, d) == idx

\* client.zrem(drivers:online, driverId): no error when the member is absent
ZRem(idx, d) == [idx EXCEPT ![d] = NoPos]

\* client.del(driver:location:{driverId}): no error when the key is absent
Del(keys, d) == [keys EXCEPT ![d] = NoPos]

\* the effect of removeDriverFromPool on the two Redis structures
removeDriverFromPool(keys, idx, d) == [key |-> Del(keys, d), geo |-> ZRem(idx, d)]

\* client.get(driver:location:{driverId}): null when there is no such key
getDriverLocation(keys, d) == keys[d]

\* driver:online arrives and prisma.driver.update({isOnline: true, ...})
\* resolves; updateDriverLocation is entered (setex is issued)
DriverOnline(d, p) ==
    /\ Arrives
    /\ drivers' = [drivers EXCEPT ![d].isOnline = TRUE]
    /\ tasks' = Spawn(tasks, Task("online", "setex", d, Null, NoRide, <<p>>))
    /\ emitted' = {}
    /\ UNCHANGED <<rides, numRides, earnings, earningUnique, driverLocKey, geoIndex,
                   rideState, timer, offers, confirmed, noDriversSent, liveSockets,
                   connectedDrivers, graceTimers, transfers, payouts>>

\* driver:offline arrives and prisma.driver.update({isOnline: false}) resolves;
\* removeDriverFromPool is entered (del is issued)
DriverOffline(d) ==
    /\ Arrives
    /\ drivers' = [drivers EXCEPT ![d].isOnline = FALSE]
    /\ tasks' = Spawn(tasks, Task("offline", "del", d, Null, NoRide, <<>>))
    /\ emitted' = {}
    /\ UNCHANGED <<rides, numRides, earnings, earningUnique, driverLocKey, geoIndex,
                   rideState, timer, offers, confirmed, noDriversSent, liveSockets,
                   connectedDrivers, graceTimers, transfers, payouts>>

\* driver:location (without rideId) arrives and setex resolves; geoadd is issued
DriverLocation(d, p) ==
    /\ Arrives
    /\ driverLocKey' = [driverLocKey EXCEPT ![d] = p]
    /\ tasks' = Spawn(tasks, Task("location", "geoadd", d, Null, NoRide, <<p>>))
    /\ emitted' = {}
    /\ UNCHANGED <<rides, numRides, drivers, earnings, earningUnique, geoIndex,
                   rideState, timer, offers, confirmed, noDriversSent, liveSockets,
                   connectedDrivers, graceTimers, transfers, payouts>>

\* POST /location arrives (the validators' result is never read) and
\* prisma.driver.update({currentLat, currentLng, ...}) resolves; setex is issued
PostLocation(d, p) ==
    /\ Arrives
    /\ tasks' = Spawn(tasks, Task("postLocation", "setex", d, Null, NoRide, <<p>>))
    /\ emitted' = {}
    /\ UNCHANGED <<rides, numRides, drivers, earnings, earningUnique, driverLocKey,
                   geoIndex, rideState, timer, offers, confirmed, noDriversSent,
                   liveSockets, connectedDrivers, graceTimers, transfers, payouts>>

\* POST /status arrives and prisma.driver.update({isOnline: online}) resolves;
\* with online and a position updateDriverLocation is entered, else
\* removeDriverFromPool (p = NoPos: the body carries no lat and lng)
PostStatus(d, online, p) ==
    /\ Arrives
    /\ drivers' = [drivers EXCEPT ![d].isOnline = online]
    /\ tasks' = Spawn(tasks, IF online /\ p # NoPos
                             THEN Task("status", "setex", d, Null, NoRide, <<p>>)
                             ELSE Task("status", "del", d, Null, NoRide, <<>>))
    /\ emitted' = {}
    /\ UNCHANGED <<rides, numRides, earnings, earningUnique, driverLocKey, geoIndex,
                   rideState, timer, offers, confirmed, noDriversSent, liveSockets,
                   connectedDrivers, graceTimers, transfers, payouts>>

\* updateDriverLocation: setex(driver:location:{id}, 300, data) resolves;
\* geoadd is issued
UpdateLocationSetex(t) ==
    /\ t.op \in PresenceOps /\ t.pc = "setex"
    /\ driverLocKey' = [driverLocKey EXCEPT ![t.who] = t.list[1]]
    /\ tasks' = Step(t, [t EXCEPT !.pc = "geoadd"])
    /\ emitted' = {}
    /\ UNCHANGED <<rides, numRides, drivers, earnings, earningUnique, geoIndex,
                   rideState, timer, offers, confirmed, noDriversSent, budget,
                   liveSockets, connectedDrivers, graceTimers, transfers, payouts>>

\* what the handler sends once its last awaited call has resolved
PresenceReply(t) ==
    IF t.op = "online" THEN {Ev("driver:online_confirmed", "driver", t.who, Null)}
    ELSE IF t.op = "offline" THEN {Ev("driver:offline_confirmed", "driver", t.who, Null)}
    ELSE IF t.op \in {"location", "grace"} THEN {}
    ELSE {Ev("http:200", "driver", t.who, Null)}

\* what it sends when the call threw: a socket handler has no catch (nothing
\* is sent), a route's asyncHandler passes the error to errorHandler (500)
PresenceError(t) ==
    IF t.op \in {"postLocation", "status"} THEN {Ev("http:500", "driver", t.who, Null)}
    ELSE {}

\* updateDriverLocation: geoadd(drivers:online, lng, lat, id) resolves, or is
\* refused by Redis for a pair out of range; the handler ends
UpdateLocationGeoadd(t) ==
    /\ t.op \in PresenceOps /\ t.pc = "geoadd"
    /\ IF ValidPosition(t.list[1])
       THEN /\ geoIndex' = [geoIndex EXCEPT ![t.who] = t.list[1]]
            /\ emitted' = PresenceReply(t)
       ELSE /\ geoIndex' = geoIndex
            /\ emitted' = PresenceError(t)
    /\ tasks' = Retire(tasks, t)
    /\ UNCHANGED <<rides, numRides, drivers, earnings, earningUnique, driverLocKey,
                   rideState, timer, offers, confirmed, noDriversSent, budget,
                   liveSockets, connectedDrivers, graceTimers, transfers, payouts>>

\* removeDriverFromPool: del resolves; zrem is issued
RemoveDel(t) ==
    /\ t.op \in PoolOps /\ t.pc = "del"
    /\ driverLocKey' = removeDriverFromPool(driverLocKey, geoIndex, t.who).key
    /\ tasks' = Step(t, [t EXCEPT !.pc = "zrem"])
    /\ emitted' = {}
    /\ UNCHANGED <<rides, numRides, drivers, earnings, earningUnique, geoIndex,
                   rideState, timer, offers, confirmed, noDriversSent, budget,
                   liveSockets, connectedDrivers, graceTimers, transfers, payouts>>

\* removeDriverFromPool: zrem resolves; the handler ends
RemoveZrem(t) ==
    /\ t.op \in PoolOps /\ t.pc = "zrem"
    /\ geoIndex' = removeDriverFromPool(driverLocKey, geoIndex, t.who).geo
    /\ tasks' = Retire(tasks, t)
    /\ emitted' = PresenceReply(t)
    /\ UNCHANGED <<rides, numRides, drivers, earnings, earningUnique, driverLocKey,
                   rideState, timer, offers, confirmed, noDriversSent, budget,
                   liveSockets, connectedDrivers, graceTimers, transfers, payouts>>

\* 300 s have passed since the last setex: Redis drops the location key
LocationKeyExpires(d) ==
    /\ driverLocKey[d] # NoPos
    /\ driverLocKey' = [driverLocKey EXCEPT ![d] = NoPos]
    /\ emitted' = {}
    /\ UNCHANGED <<rides, numRides, drivers, earnings, earningUnique, geoIndex,
                   rideState, tasks, timer, offers, confirmed, noDriversSent,
                   budget, liveSockets, connectedDrivers, graceTimers, transfers,
                   payouts>>

(***************************************************************************)
(* Driver sockets and the disconnect timer (services/socketService.js).    *)
(***************************************************************************)
SocketIds == 1..MaxSockets

\* a callback that removes the driver whatever the Map says
GraceAppliesAlways(map, d) == TRUE

\* if (!connectedDrivers.has(id))
GraceApplies(map, d) == map[d] = Null

\* io.on('connection') for a driver: connectedDrivers.set(id, socket.id)
Connect(d, s) ==
    /\ Arrives
    /\ s \notin liveSockets[d]
    /\ liveSockets' = [liveSockets EXCEPT ![d] = @ \cup {s}]
    /\ connectedDrivers' = [connectedDrivers EXCEPT ![d] = s]
    /\ emitted' = {}
    /\ UNCHANGED <<rides, numRides, drivers, earnings, earningUnique, driverLocKey,
                   geoIndex, rideState, tasks, timer, offers, confirmed,
                   noDriversSent, graceTimers, transfers, payouts>>

\* socket.on('disconnect') for a driver: connectedDrivers.delete(id), then
\* setTimeout(..., 30000)
Disconnect(d, s) ==
    /\ Arrives
    /\ s \in liveSockets[d]
    /\ liveSockets' = [liveSockets EXCEPT ![d] = @ \ {s}]
    /\ connectedDrivers' = [connectedDrivers EXCEPT ![d] = Null]
    /\ graceTimers' = [graceTimers EXCEPT ![d] = @ + 1]
    /\ emitted' = {}
    /\ UNCHANGED <<rides, numRides, drivers, earnings, earningUnique, driverLocKey,
                   geoIndex, rideState, tasks, timer, offers, confirmed,
                   noDriversSent, transfers, payouts>>

\* the 30 s of one timer have passed: its callback runs; with no entry in the
\* Map driver.update({isOnline: false}) is issued
GraceFire(d) ==
    /\ graceTimers[d] > 0
    /\ graceTimers' = [graceTimers EXCEPT ![d] = @ - 1]
    /\ tasks' = IF GraceApplies(connectedDrivers, d)
                THEN Spawn(tasks, Task("grace", "update", d, Null, NoRide, <<>>))
                ELSE tasks
    /\ emitted' = {}
    /\ UNCHANGED <<rides, numRides, drivers, earnings, earningUnique, driverLocKey,
                   geoIndex, rideState, timer, offers, confirmed, noDriversSent,
                   liveSockets, connectedDrivers, budget, transfers, payouts>>

\* driver.update({isOnline: false}) resolves (an error is swallowed by
\* .catch); removeDriverFromPool is entered (del is issued)
GraceUpdate(t) ==
    /\ t.op = "grace" /\ t.pc = "update"
    /\ drivers' = [drivers EXCEPT ![t.who].isOnline = FALSE]
    /\ tasks' = Step(t, [t EXCEPT !.pc = "del"])
    /\ emitted' = {}
    /\ UNCHANGED <<rides, numRides, earnings, earningUnique, driverLocKey, geoIndex,
                   rideState, timer, offers, confirmed, noDriversSent, liveSockets,
                   connectedDrivers, graceTimers, budget, transfers, payouts>>

(***************************************************************************)
(* The system: riders and drivers send requests; handlers in flight advance.*)
(***************************************************************************)
DriverRow(online, types) == [status |-> "APPROVED", isOnline |-> online,
                             serviceTypes |-> types, totalRides |-> 0,
                             totalEarnings |-> 0, stripeOnboarded |-> TRUE]

\* presence of the drivers at the start: nobody is online; or every active
\* driver is online and indexed near the pickup; or every active driver is
\* indexed there but offline (a location ping does not touch isOnline)
Presences == {"none", "online", "indexed"}

InitWith(presence, requests) ==
    /\ rides = [r \in RideIds |-> NoRide]
    /\ numRides = 0
    /\ drivers = [d \in Drivers |->
                    DriverRow(d \in ActiveDrivers /\ presence = "online", ServiceTypes)]
    /\ earnings = <<>>
    /\ earningUnique \in BOOLEAN
    /\ geoIndex = [d \in Drivers |->
                    IF d \in ActiveDrivers /\ presence # "none" THEN 2 ELSE NoPos]
    /\ driverLocKey = geoIndex
    /\ rideState = {}
    /\ tasks = EmptyBag
    /\ timer = [r \in RideIds |-> "none"]
    /\ offers = [r \in RideIds |-> {}]
    /\ confirmed = [r \in RideIds |-> {}]
    /\ noDriversSent = [r \in RideIds |-> 0]
    /\ emitted = {}
    /\ liveSockets = [d \in Drivers |-> IF d \in ActiveDrivers THEN {1} ELSE {}]
    /\ connectedDrivers = [d \in Drivers |-> IF d \in ActiveDrivers THEN 1 ELSE Null]
    /\ graceTimers = [d \in Drivers |-> 0]
    /\ transfers = <<>>
    /\ payouts = <<>>
    /\ budget = requests

Init == \E presence \in Presences : InitWith(presence, MaxRequests)

Advance(t) ==
    \/ RequestCreate(t)
    \/ RequestSetRideState(t)
    \/ MatchFindRide(t)
    \/ \E tie \in {"lo", "hi"} : MatchFindNearby(t, tie)
    \/ MatchFilter(t)
    \/ MatchNoDrivers(t)
    \/ TimerNoDrivers(t)
    \/ AcceptFindDriver(t)
    \/ AcceptUpdate(t)
    \/ CompleteCreateEarning(t)
    \/ CompleteUpdateDriver(t)
    \/ CompleteClearRideState(t)
    \/ CancelUpdate(t)
    \/ CancelClearRideState(t)

Next ==
    \/ \E u \in Riders, sched \in BOOLEAN, at \in PickupPoints :
           RequestRide(u, sched, "VELOX", at)
    \/ \E r \in RideIds : TimerFire(r)
    \/ \E d \in ActiveDrivers, r \in RideIds : AcceptRide(d, r)
    \/ \E d \in ActiveDrivers, r \in RideIds : DriverArrived(d, r)
    \/ \E d \in ActiveDrivers, r \in RideIds : StartTrip(d, r)
    \/ \E d \in ActiveDrivers, r \in RideIds : CompleteTrip(d, r)
    \/ \E u \in Riders, r \in RideIds : CancelRide("user", u, r)
    \/ \E d \in ActiveDrivers, r \in RideIds : CancelRide("driver", d, r)
    \/ \E t \in BagToSet(tasks) : Advance(t)

Spec == Init /\ [][Next]_vars

(***************************************************************************)
(* A busy area: one ride has just been created and every driver of the     *)
(* fleet sits in the geo index within the matching radius of its pickup.   *)
(* A few drivers are eligible for the ride; each of the others is either    *)
(* offline in the Driver table, not registered for the ride's service, or  *)
(* not yet approved.                                                       *)
(***************************************************************************)
FleetPos(d) == (d - 1) \div 3

FleetRide ==
    LET fare == FareOf(2, "VELOX_BLACK", 0) IN
    [NoRide EXCEPT !.userId = 1, !.status = "REQUESTED", !.serviceType = "VELOX_BLACK",
                   !.totalFare = fare.totalFare, !.platformFee = fare.platformFee,
                   !.driverEarnings = fare.driverEarnings]

\* the subsets of S with at most k members
RECURSIVE SmallSets(_, _)
SmallSets(S, k) ==
    IF k = 0 THEN {{}}
    ELSE LET P == SmallSets(S, k - 1) IN P \cup {p \cup {x} : p \in P, x \in S}

InitFleet ==
    \E eligible \in SmallSets(Drivers, MaxEligible),
       cause \in {"offline", "service", "unverified"} :
        LET offline == IF cause = "offline" THEN Drivers \ eligible ELSE {}
            unverified == IF cause = "unverified" THEN Drivers \ eligible ELSE {} IN
        /\ rides = [r \in RideIds |-> IF r = 1 THEN FleetRide ELSE NoRide]
        /\ numRides = 1
        /\ drivers = [d \in Drivers |->
                        IF d \in eligible THEN DriverRow(TRUE, ServiceTypes)
                        ELSE IF d \in offline THEN DriverRow(FALSE, ServiceTypes)
                        ELSE IF d \in unverified
                        THEN [DriverRow(TRUE, ServiceTypes) EXCEPT !.status = "PENDING_APPROVAL"]
                        ELSE DriverRow(TRUE, {"VELOX"})]
        /\ earnings = <<>>
        /\ earningUnique \in BOOLEAN
        /\ geoIndex = [d \in Drivers |-> FleetPos(d)]
        /\ driverLocKey = geoIndex
        /\ rideState = {1}
        /\ tasks = SetToBag({Task("match", "findRide", Null, 1, NoRide, <<>>)})
        /\ timer = [r \in RideIds |-> "none"]
        /\ offers = [r \in RideIds |-> {}]
        /\ confirmed = [r \in RideIds |-> {}]
        /\ noDriversSent = [r \in RideIds |-> 0]
        /\ emitted = {}
        /\ liveSockets = [d \in Drivers |-> {}]
        /\ connectedDrivers = [d \in Drivers |-> Null]
        /\ graceTimers = [d \in Drivers |-> 0]
        /\ transfers = <<>>
        /\ payouts = <<>>
        /\ budget = 0

NextFleet ==
    \/ \E r \in RideIds : TimerFire(r)
    \/ \E t \in BagToSet(tasks) :
        \/ MatchFindRide(t)
        \/ \E tie \in {"lo", "hi"} : MatchFindNearby(t, tie)
        \/ MatchFilter(t)
        \/ MatchNoDrivers(t)
        \/ TimerNoDrivers(t)

SpecFleet == InitFleet /\ [][NextFleet]_vars

\* the steps the server takes by itself: timers fire and awaited calls resolve
System ==
    \/ \E r \in RideIds : TimerFire(r)
    \/ \E t \in BagToSet(tasks) : Advance(t)

\* Node fires every timer that was set and resumes every handler whose
\* awaited call has resolved
InitFair == \E presence \in Presences : InitWith(presence, MaxFairRequests)

FairSpec == InitFair /\ [][Next]_vars /\ WF_vars(System)

(***************************************************************************)
(* Presence alone: drivers go online and offline and report positions;     *)
(* location keys expire.  No ride is requested.                            *)
(***************************************************************************)
InitPresence == InitWith("none", MaxPresenceRequests)

NextPresence ==
    \/ \E d \in ActiveDrivers, p \in ReportedPoints : DriverOnline(d, p)
    \/ \E d \in ActiveDrivers : DriverOffline(d)
    \/ \E d \in ActiveDrivers, p \in ReportedPoints : DriverLocation(d, p)
    \/ \E d \in ActiveDrivers, p \in ReportedPoints : PostLocation(d, p)
    \/ \E d \in ActiveDrivers, online \in BOOLEAN, p \in ReportedPoints \cup {NoPos} :
           PostStatus(d, online, p)
    \/ \E d \in ActiveDrivers : LocationKeyExpires(d)
    \/ \E t \in BagToSet(tasks) :
           \/ UpdateLocationSetex(t)
           \/ UpdateLocationGeoadd(t)
           \/ RemoveDel(t)
           \/ RemoveZrem(t)

SpecPresence == InitPresence /\ [][NextPresence]_vars

(***************************************************************************)
(* One trip: a ride has been created and offered to the active drivers,    *)
(* and its expiry timer is set.  Drivers accept and advance it, the rider  *)
(* cancels it or tips.                                                     *)
(***************************************************************************)
TripRide(promoDiscount) ==
    LET fare == FareOf(2, "VELOX", promoDiscount) IN
    [NoRide EXCEPT !.userId = 1, !.status = "REQUESTED",
                   !.totalFare = fare.totalFare, !.platformFee = fare.platformFee,
                   !.driverEarnings = fare.driverEarnings]

InitTrip ==
    \E promoDiscount \in PromoDiscounts :
        /\ rides = [r \in RideIds |-> IF r = 1 THEN TripRide(promoDiscount) ELSE NoRide]
        /\ numRides = 1
        /\ drivers = [d \in Drivers |-> DriverRow(d \in ActiveDrivers, ServiceTypes)]
        /\ earnings = <<>>
        /\ earningUnique \in BOOLEAN
        /\ geoIndex = [d \in Drivers |-> IF d \in ActiveDrivers THEN 2 ELSE NoPos]
        /\ driverLocKey = geoIndex
        /\ rideState = {1}
        /\ tasks = EmptyBag
        /\ timer = [r \in RideIds |-> IF r = 1 THEN "armed" ELSE "none"]
        /\ offers = [r \in RideIds |-> IF r = 1 THEN ActiveDrivers ELSE {}]
        /\ confirmed = [r \in RideIds |-> {}]
        /\ noDriversSent = [r \in RideIds |-> 0]
        /\ emitted = {}
        /\ liveSockets = [d \in Drivers |-> IF d \in ActiveDrivers THEN {1} ELSE {}]
        /\ connectedDrivers = [d \in Drivers |-> IF d \in ActiveDrivers THEN 1 ELSE Null]
        /\ graceTimers = [d \in Drivers |-> 0]
        /\ transfers = <<>>
        /\ payouts = <<>>
        /\ budget = MaxTripRequests

NextTrip ==
    \/ \E r \in RideIds : TimerFire(r)
    \/ \E d \in ActiveDrivers, r \in RideIds : AcceptRide(d, r)
    \/ \E d \in ActiveDrivers, r \in RideIds : DriverArrived(d, r)
    \/ \E d \in ActiveDrivers, r \in RideIds : StartTrip(d, r)
    \/ \E d \in ActiveDrivers, r \in RideIds : CompleteTrip(d, r)
    \/ \E u \in Riders, r \in RideIds : CancelRide("user", u, r)
    \/ \E d \in ActiveDrivers, r \in RideIds : CancelRide("driver", d, r)
    \/ \E u \in Riders, r \in RideIds, amount \in TipAmounts : TipRide(u, r, amount)
    \/ \E t \in BagToSet(tasks) :
           \/ TimerNoDrivers(t)
           \/ AcceptFindDriver(t)
           \/ AcceptUpdate(t)
           \/ CompleteCreateEarning(t)
           \/ CompleteUpdateDriver(t)
           \/ CompleteClearRideState(t)
           \/ CancelUpdate(t)
           \/ CancelClearRideState(t)
           \/ TipUpdate(t)
           \/ TipUpdateMany(t)

SpecTrip == InitTrip /\ [][NextTrip]_vars

(***************************************************************************)
(* Requests, matching and accepts while calls to the ride store and to     *)
(* Redis may reject.                                                       *)
(***************************************************************************)
InitFaults == \E presence \in {"none", "online"} : InitWith(presence, MaxFaultRequests)

NextFaults ==
    \/ \E u \in Riders, at \in PickupPoints : RequestRide(u, FALSE, "VELOX", at)
    \/ \E r \in RideIds : TimerFire(r)
    \/ \E d \in ActiveDrivers, r \in RideIds : AcceptRide(d, r)
    \/ \E d \in ActiveDrivers, r \in RideIds : AcceptRideThrows(d, r)
    \/ \E t \in BagToSet(tasks) :
           \/ RequestCreate(t)
           \/ RequestSetRideState(t)
           \/ MatchFindRide(t)
           \/ \E tie \in {"lo", "hi"} : MatchFindNearby(t, tie)
           \/ MatchFilter(t)
           \/ MatchNoDrivers(t)
           \/ TimerNoDrivers(t)
           \/ AcceptFindDriver(t)
           \/ AcceptUpdate(t)
           \/ AcceptThrows(t)
           \/ MatchThrows(t)

SpecFaults == InitFaults /\ [][NextFaults]_vars

(***************************************************************************)
(* Sockets alone: every active driver is online, indexed and connected;    *)
(* sockets connect and disconnect, and disconnect timers fire.             *)
(***************************************************************************)
InitSockets == InitWith("online", MaxSocketEvents)

NextSockets ==
    \/ \E d \in ActiveDrivers, s \in SocketIds : Connect(d, s)
    \/ \E d \in ActiveDrivers, s \in SocketIds : Disconnect(d, s)
    \/ \E d \in ActiveDrivers : GraceFire(d)
    \/ \E t \in BagToSet(tasks) :
           \/ GraceUpdate(t)
           \/ RemoveDel(t)
           \/ RemoveZrem(t)

SpecSockets == InitSockets /\ [][NextSockets]_vars

(***************************************************************************)
(* Two rounds: two riders have each requested a ride, both rides have been *)
(* offered to the active drivers and their expiry timers are set.          *)
(***************************************************************************)
RoundRide(u) == [TripRide(0) EXCEPT !.userId = u]

InitRounds ==
    /\ rides = [r \in RideIds |-> IF r \in Riders THEN RoundRide(r) ELSE NoRide]
    /\ numRides = Cardinality(RideIds \cap Riders)
    /\ drivers = [d \in Drivers |-> DriverRow(d \in ActiveDrivers, ServiceTypes)]
    /\ earnings = <<>>
    /\ earningUnique \in BOOLEAN
    /\ geoIndex = [d \in Drivers |-> IF d \in ActiveDrivers THEN 2 ELSE NoPos]
    /\ driverLocKey = geoIndex
    /\ rideState = RideIds \cap Riders
    /\ tasks = EmptyBag
    /\ timer = [r \in RideIds |-> IF r \in Riders THEN "armed" ELSE "none"]
    /\ offers = [r \in RideIds |-> IF r \in Riders THEN ActiveDrivers ELSE {}]
    /\ confirmed = [r \in RideIds |-> {}]
    /\ noDriversSent = [r \in RideIds |-> 0]
    /\ emitted = {}
    /\ liveSockets = [d \in Drivers |-> IF d \in ActiveDrivers THEN {1} ELSE {}]
    /\ connectedDrivers = [d \in Drivers |-> IF d \in ActiveDrivers THEN 1 ELSE Null]
    /\ graceTimers = [d \in Drivers |-> 0]
    /\ transfers = <<>>
    /\ payouts = <<>>
    /\ budget = MaxRoundRequests

NextRounds ==
    \/ \E r \in RideIds : TimerFire(r)
    \/ \E d \in ActiveDrivers, r \in RideIds : AcceptRide(d, r)
    \/ \E t \in BagToSet(tasks) :
           \/ TimerNoDrivers(t)
           \/ AcceptFindDriver(t)
           \/ AcceptUpdate(t)

SpecRounds == InitRounds /\ [][NextRounds]_vars

(***************************************************************************)
(* Payouts: driver 1 has completed ride 1 and holds its pending earning,   *)
(* and is on the way with ride 2.  The driver asks for instant payouts     *)
(* and completes the second trip.  Driver 2 has not finished onboarding.   *)
(***************************************************************************)
PaidRide(promoDiscount) ==
    [TripRide(promoDiscount) EXCEPT !.status = "COMPLETED", !.driverId = 1]

InitPayout ==
    \E promoDiscount \in PromoDiscounts :
        /\ rides = [r \in RideIds |->
                        IF r = 1 THEN PaidRide(promoDiscount)
                        ELSE [TripRide(0) EXCEPT !.userId = 2, !.driverId = 1,
                                                 !.status = "IN_PROGRESS"]]
        /\ numRides = MaxRides
        /\ drivers = [d \in Drivers |->
                          IF d = 1
                          THEN [DriverRow(TRUE, ServiceTypes) EXCEPT
                                   !.totalRides = 1,
                                   !.totalEarnings = PaidRide(promoDiscount).driverEarnings]
                          ELSE [DriverRow(d \in ActiveDrivers, ServiceTypes) EXCEPT
                                   !.stripeOnboarded = FALSE]]
        /\ earnings = <<[driverId |-> 1, rideId |-> 1,
                         grossAmount |-> PaidRide(promoDiscount).totalFare,
                         platformFee |-> PaidRide(promoDiscount).platformFee,
                         netAmount |-> PaidRide(promoDiscount).driverEarnings,
                         tip |-> 0, status |-> "PENDING", payoutId |-> Null]>>
        /\ earningUnique \in BOOLEAN
        /\ geoIndex = [d \in Drivers |-> IF d \in ActiveDrivers THEN 2 ELSE NoPos]
        /\ driverLocKey = geoIndex
        /\ rideState = {2}
        /\ tasks = EmptyBag
        /\ timer = [r \in RideIds |-> "none"]
        /\ offers = [r \in RideIds |-> ActiveDrivers]
        /\ confirmed = [r \in RideIds |-> {1}]
        /\ noDriversSent = [r \in RideIds |-> 0]
        /\ emitted = {}
        /\ liveSockets = [d \in Drivers |-> IF d \in ActiveDrivers THEN {1} ELSE {}]
        /\ connectedDrivers = [d \in Drivers |-> IF d \in ActiveDrivers THEN 1 ELSE Null]
        /\ graceTimers = [d \in Drivers |-> 0]
        /\ transfers = <<>>
        /\ payouts = <<>>
        /\ budget = MaxPayoutRequests

NextPayout ==
    \/ \E d \in ActiveDrivers : PayoutInstant(d)
    \/ \E d \in ActiveDrivers, r \in RideIds : CompleteTrip(d, r)
    \/ \E t \in BagToSet(tasks) :
           \/ PayoutFindMany(t)
           \/ PayoutTransfer(t)
           \/ PayoutCreate(t)
           \/ PayoutUpdateMany(t)
           \/ CompleteCreateEarning(t)
           \/ CompleteUpdateDriver(t)
           \/ CompleteClearRideState(t)

SpecPayout == InitPayout /\ [][NextPayout]_vars

(***************************************************************************)
Pending(op, r) == \E t \in BagToSet(tasks) : t.op = op /\ t.ride = r

\* the step ends a handler of the given kind on ride r
Ends(op, r) == \E t \in BagToSet(tasks) : t.op = op /\ t.ride = r /\ tasks' = Retire(tasks, t)

Sent(ev, r) == \E e \in emitted : e.ev = ev /\ e.ride = r

\* C1: single winner.  Among the drivers a ride was offered to, at most one is
\* sent ride:accept_confirmed, and once no accept handler is in flight the
\* ride's driverId is the driver that was confirmed.
C1_SingleWinner ==
    \A r \in RideIds :
        LET winners == confirmed[r] \cap offers[r] IN
        /\ Cardinality(winners) <= 1
        /\ (winners # {} /\ confirmed[r] \subseteq offers[r] /\ ~Pending("accept", r))
               => rides[r].driverId \in winners

\* the step starts the completion of ride r: its COMPLETED write is applied
\* and earning.create is issued
Completes(r) ==
    \E t \in BagToSet(tasks') :
        /\ t.op = "complete" /\ t.pc = "createEarning" /\ t.ride = r
        /\ CopiesIn(t, tasks') > CopiesIn(t, tasks)

\* C2: no double completion.  No ride has more than one Earning row, and a
\* driver:complete_trip for a ride that is COMPLETED already is not applied.
C2_NoDoubleCompletion ==
    /\ [](\A r \in RideIds : Cardinality(EarningsOf(r)) <= 1)
    /\ [][\A r \in RideIds : rides[r].status = "COMPLETED" => ~Completes(r)]_vars

\* C3: terminal states are absorbing.  No step changes the status of a ride
\* that is COMPLETED, CANCELLED or NO_DRIVERS.
C3_TerminalAbsorbing ==
    [][\A r \in RideIds :
          rides[r].status \in TerminalStatuses => rides'[r].status = rides[r].status]_vars

\* C4: forward order.  A ride becomes ARRIVED only from ACCEPTED, IN_PROGRESS
\* only from ARRIVED and COMPLETED only from IN_PROGRESS.
C4_ForwardOrder ==
    [][\A r \in RideIds :
          rides'[r].status # rides[r].status =>
              /\ rides'[r].status = "ARRIVED" => rides[r].status = "ACCEPTED"
              /\ rides'[r].status = "IN_PROGRESS" => rides[r].status = "ARRIVED"
              /\ rides'[r].status = "COMPLETED" => rides[r].status = "IN_PROGRESS"]_vars

\* C5: the expiry timer tolerates firing after resolution.  The step in which
\* the timer callback writes NO_DRIVERS finds the ride still REQUESTED.
C5_TimerRechecks ==
    [][\A r \in RideIds : Ends("expiry", r) => rides[r].status = "REQUESTED"]_vars

\* C6: expiry.  When the timer callback of an offered ride finds it REQUESTED,
\* the ride is written NO_DRIVERS and ride:no_drivers goes to the rider; every
\* ride that was offered to a candidate eventually leaves REQUESTED.
C6_Expiry ==
    /\ [][\A r \in RideIds :
            Ends("expiry", r) =>
                /\ rides'[r].status = "NO_DRIVERS"
                /\ Ev("ride:no_drivers", "user", rides[r].userId, r) \in emitted']_vars
    /\ \A r \in RideIds : (offers[r] # {}) ~> (rides[r].status # "REQUESTED")

C6_Witness ==
    \E r \in RideIds :
        /\ offers[r] # {} /\ timer[r] = "fired"
        /\ rides[r].status = "NO_DRIVERS"
        /\ Sent("ride:no_drivers", r)

\* C7: a ride goes from REQUESTED to NO_DRIVERS at most once and its rider is
\* sent ride:no_drivers at most once.
C7_NoDriversOnce ==
    /\ [](\A r \in RideIds : noDriversSent[r] <= 1)
    /\ [][\A r \in RideIds :
            (rides[r].status = "REQUESTED" /\ rides'[r].status = "NO_DRIVERS")
                => noDriversSent[r] = 0]_vars

C7_Witness ==
    \E r \in RideIds :
        /\ offers[r] # {} /\ timer[r] = "fired"
        /\ noDriversSent[r] = 1
        /\ ~Pending("expiry", r)

\* the drivers that are eligible for ride r and indexed within the radius
EligibleNear(r) ==
    {d \in Drivers :
        /\ geoIndex[d] # NoPos
        /\ Dist(geoIndex[d], rides[r].pickup) <= MatchRadiusMiles
        /\ drivers[d].status = "APPROVED"
        /\ drivers[d].isOnline
        /\ rides[r].serviceType \in drivers[d].serviceTypes}

\* C8: a ride that dispatch itself moves to NO_DRIVERS (no timer was set) was
\* offered to nobody and has no eligible driver within the radius.
C8_NoDriversOnlyIfNoneEligible ==
    \A r \in RideIds :
        (rides[r].status = "NO_DRIVERS" /\ timer[r] = "none")
            => (offers[r] = {} /\ EligibleNear(r) = {})

\* C9: a rider has at most one ride with a non-terminal status.
C9_OneActiveRidePerRider ==
    \A u \in Riders :
        Cardinality({r \in 1..numRides :
                        rides[r].userId = u /\ rides[r].status \in ActiveStatuses}) <= 1

\* C10: driverId is null while the ride is REQUESTED or NO_DRIVERS and set
\* while it is ACCEPTED, ARRIVED, IN_PROGRESS or COMPLETED.
C10_DriverIdIffAccepted ==
    \A r \in 1..numRides :
        /\ rides[r].status \in {"REQUESTED", "NO_DRIVERS"} => rides[r].driverId = Null
        /\ rides[r].status \in {"ACCEPTED", "ARRIVED", "IN_PROGRESS", "COMPLETED"}
               => rides[r].driverId # Null

\* C11: a late accept is refused.  A driver:accept_ride handled when the ride
\* is unknown or no longer REQUESTED is answered with ride:accept_failed, ends
\* there and leaves the Ride table as it was.
C11_LateAcceptRejected ==
    [][\A d \in ActiveDrivers, r \in RideIds :
          (AcceptRide(d, r) /\ (~RideExists(r) \/ rides[r].status # "REQUESTED"))
              => /\ Ev("ride:accept_failed", "driver", d, r) \in emitted'
                 /\ rides' = rides
                 /\ tasks' = tasks]_vars

C11_Witness ==
    \E d \in ActiveDrivers, r \in RideIds :
        /\ Ev("ride:accept_failed", "driver", d, r) \in emitted
        /\ RideExists(r) /\ rides[r].status = "ACCEPTED"
        /\ rides[r].driverId \notin {Null, d}

\* driver d is assigned to a ride other than r that is under way
ActiveAssignment(d, r) ==
    \E q \in (1..numRides) \ {r} :
        rides[q].driverId = d /\ rides[q].status \in {"ACCEPTED", "ARRIVED", "IN_PROGRESS"}

\* C13: a driver who is assigned to a ride that is ACCEPTED, ARRIVED or
\* IN_PROGRESS is sent no ride:request for another ride.
C13_BusyDriverNotOffered ==
    [][\A r \in RideIds, d \in Drivers :
          (d \in offers'[r] /\ d \notin offers[r]) => ~ActiveAssignment(d, r)]_vars

\* C20: cancellation fee.  The fee a successful cancel reports is the fixed
\* fee when the caller is the rider and the ride read had a driver, else 0.
C20_CancellationFee ==
    [][\A t \in BagToSet(tasks) :
          (t.op = "cancel" /\ CancelClearRideState(t)) =>
              \E e \in emitted' :
                  /\ e.ev = "ride:cancelled" /\ e.ride = t.ride
                  /\ e.id = IF t.list[1] = "user" /\ t.snap.driverId # Null
                            THEN CancellationFee ELSE 0]_vars

C20_Witness ==
    \E e \in emitted, r \in RideIds :
        /\ e.ev = "ride:cancelled" /\ e.ride = r /\ e.id = CancellationFee
        /\ rides[r].status = "CANCELLED" /\ rides[r].driverId # Null

Min(a, b) == IF a <= b THEN a ELSE b

\* C12: the offers of a ride go to the min(FanOut, number eligible) nearest
\* eligible drivers within the radius: only eligible drivers, that many of
\* them, and no eligible driver left out is nearer than one that was offered.
C12_OffersNearestEligible ==
    \A r \in RideIds :
        offers[r] # {} =>
            /\ offers[r] \subseteq EligibleNear(r)
            /\ Cardinality(offers[r]) = Min(FanOut, Cardinality(EligibleNear(r)))
            /\ \A d \in offers[r], e \in EligibleNear(r) \ offers[r] :
                   Dist(geoIndex[d], rides[r].pickup) <= Dist(geoIndex[e], rides[r].pickup)

\* C14: every driver that is sent ride:request is, when the offer is made,
\* APPROVED, flagged online and registered for the ride's service class.
C14_OfferedWereEligible ==
    [][\A r \in RideIds, d \in Drivers :
          (d \in offers'[r] /\ d \notin offers[r]) =>
              /\ drivers[d].status = "APPROVED"
              /\ drivers[d].isOnline
              /\ rides[r].serviceType \in drivers[d].serviceTypes]_vars

C14_Witness ==
    \E r \in RideIds, d \in Drivers, e \in Drivers :
        /\ d \in offers[r] /\ e \notin offers[r]
        /\ drivers[e].status # "APPROVED"
        /\ geoIndex[e] # NoPos /\ geoIndex[d] # NoPos
        /\ Dist(geoIndex[e], rides[r].pickup) < Dist(geoIndex[d], rides[r].pickup)

QueryRadii == {3, MatchRadiusMiles}
QueryLimits == {1, FanOut, DefaultLimit}

InRadius(at, radiusMiles) ==
    {d \in Drivers : geoIndex[d] # NoPos /\ Dist(geoIndex[d], at) <= radiusMiles}

\* res is the nearest-first prefix, of length at most limit, of the indexed
\* drivers within the radius
NearestPrefix(res, at, radiusMiles, limit) ==
    \A within \in {InRadius(at, radiusMiles)} :
        /\ Len(res) = Min(limit, Cardinality(within))
        /\ \A i \in 1..Len(res) :
               /\ res[i].driverId \in within
               /\ res[i].distanceMiles = Dist(geoIndex[res[i].driverId], at)
        /\ \A i, j \in 1..Len(res) :
               i < j => /\ res[i].distanceMiles <= res[j].distanceMiles
                        /\ res[i].driverId # res[j].driverId
        /\ \A e \in within \ SeqDrivers(res), i \in 1..Len(res) :
               res[i].distanceMiles <= Dist(geoIndex[e], at)

\* the step in which the georadius query of ride r's dispatch resolves
Queries(r) ==
    \E t \in BagToSet(tasks), t2 \in BagToSet(tasks') :
        /\ t.op = "match" /\ t.pc = "findNearby" /\ t.ride = r
        /\ t2.op = "match" /\ t2.pc \in {"findMany", "noDrivers"} /\ t2.ride = r
        /\ tasks' = Step(t, t2)

\* C18: whenever dispatch is about to query the geo index, findNearbyDrivers
\* returns (for every radius and limit) at most limit entries in non-decreasing
\* distance, all within the radius, being the nearest-first prefix of the
\* indexed drivers within it; the query leaves the index as it was, and the
\* list dispatch goes on with is that prefix.
C18_NearbyQuery ==
    /\ [](\A t \in BagToSet(tasks) :
             (t.op = "match" /\ t.pc = "findNearby") =>
                 \A radiusMiles \in QueryRadii, limit \in QueryLimits, tie \in {"lo", "hi"} :
                     NearestPrefix(findNearbyDrivers(t.snap.pickup, radiusMiles, limit, tie),
                                   t.snap.pickup, radiusMiles, limit))
    /\ [][\A r \in RideIds :
             Queries(r) =>
                 /\ geoIndex' = geoIndex
                 /\ \A t2 \in BagToSet(tasks') :
                        (t2.op = "match" /\ t2.pc = "findMany" /\ t2.ride = r) =>
                            NearestPrefix(t2.list, rides[r].pickup,
                                          MatchRadiusMiles, DefaultLimit)]_vars

C18_Witness ==
    \E t \in BagToSet(tasks) :
        /\ t.op = "match" /\ t.pc = "findMany"
        /\ Len(t.list) = DefaultLimit
        /\ InRadius(t.snap.pickup, MatchRadiusMiles) \ SeqDrivers(t.list) # {}

\* driver d appears in some result of findNearbyDrivers around a pickup point
AppearsNearby(d) ==
    \E at \in PickupPoints, tie \in {"lo", "hi"} :
        d \in SeqDrivers(findNearbyDrivers(at, MatchRadiusMiles, DefaultLimit, tie))

\* C15: staleness exclusion.  A driver whose location key has run out (no
\* update for 300 s) and who has no presence handler in flight appears in no
\* findNearbyDrivers result.
C15_StaleExcluded ==
    \A d \in Drivers :
        (driverLocKey[d] = NoPos /\ PresenceTasks(d) = {}) => ~AppearsNearby(d)

\* C16: presence only while online.  A driver who is flagged offline and has
\* no presence handler in flight appears in no findNearbyDrivers result:
\* location pings of a driver who is not online create no presence record.
C16_OfflineNotIndexed ==
    \A d \in Drivers :
        (~drivers[d].isOnline /\ PresenceTasks(d) = {}) => ~AppearsNearby(d)

\* C17: idempotent removal.  In every state and for every driver (those with
\* a session and one that was never indexed),
\* removeDriverFromPool leaves the driver without location key and out of the
\* geo index, changes nothing else, changes nothing at all when the driver is
\* absent, and applied twice gives what it gives applied once; when the
\* removal of a handler has run, the driver is in no findNearbyDrivers result.
C17_RemovalIdempotent ==
    /\ [](\A d \in 1..(NumActive + 1) :
             \A once \in {removeDriverFromPool(driverLocKey, geoIndex, d)} :
                 /\ getDriverLocation(once.key, d) = NoPos
                 /\ once.geo[d] = NoPos
                 /\ \A e \in Drivers \ {d} :
                        once.key[e] = driverLocKey[e] /\ once.geo[e] = geoIndex[e]
                 /\ (driverLocKey[d] = NoPos /\ geoIndex[d] = NoPos)
                        => (once.key = driverLocKey /\ once.geo = geoIndex)
                 /\ removeDriverFromPool(once.key, once.geo, d) = once)
    /\ [][\A t \in BagToSet(tasks) :
             (t.op \in PresenceOps /\ RemoveZrem(t)) => ~AppearsNearby(t.who)']_vars

C17_Witness ==
    \E d \in ActiveDrivers, e \in ActiveDrivers :
        /\ Ev("driver:offline_confirmed", "driver", d, Null) \in emitted
        /\ geoIndex[d] = NoPos /\ driverLocKey[d] = NoPos
        /\ geoIndex[e] # NoPos /\ driverLocKey[e] # NoPos

\* C19: invalid coordinates are rejected.  No location key and no entry of
\* the geo index ever holds a coordinate out of range.
C19_InvalidCoordinatesRejected ==
    \A d \in Drivers :
        /\ driverLocKey[d] # NoPos => ValidPosition(driverLocKey[d])
        /\ geoIndex[d] # NoPos => ValidPosition(geoIndex[d])

\* the step adds a handler of the given kind at the given position on ride r
Starts(op, pc, r) ==
    \E t \in BagToSet(tasks') :
        /\ t.op = op /\ t.pc = pc /\ t.ride = r
        /\ CopiesIn(t, tasks') > CopiesIn(t, tasks)

\* the step sends the event about ride r
Sends(ev, r) == \E e \in emitted' : e.ev = ev /\ e.ride = r

\* C21: cancel is accepted only for a ride that is REQUESTED, ACCEPTED, ARRIVED
\* or IN_PROGRESS and only from its rider or its assigned driver; any other
\* cancel request is refused and changes neither the ride nor its live state.
C21_CancelOnlyActive ==
    [][\A r \in RideIds, t \in BagToSet(tasks') :
          (/\ t.op = "cancel" /\ t.pc = "update" /\ t.ride = r
           /\ CopiesIn(t, tasks') > CopiesIn(t, tasks))
          => /\ RideExists(r)
             /\ rides[r].status \in {"REQUESTED", "ACCEPTED", "ARRIVED", "IN_PROGRESS"}
             /\ \/ t.list[1] = "user" /\ rides[r].userId = t.who
                \/ t.list[1] = "driver" /\ rides[r].driverId = t.who]_vars

\* C22: a cancellation that goes through writes CANCELLED first, and when its
\* handler ends the ride's live-state entry is gone and ride:cancelled has
\* been sent to the ride's room; ride:cancelled is sent at no other moment.
C22_CancelClearsAndNotifies ==
    [][\A r \in RideIds :
          /\ Starts("cancel", "clearRideState", r)
                 => rides'[r].status = "CANCELLED" /\ ~Sends("ride:cancelled", r)
          /\ Ends("cancel", r)
                 => /\ r \notin rideState'
                    /\ \E e \in emitted' :
                           e.ev = "ride:cancelled" /\ e.room = "ride" /\ e.ride = r
          /\ Sends("ride:cancelled", r)
                 => \E t \in BagToSet(tasks) :
                        /\ t.op = "cancel" /\ t.pc = "clearRideState" /\ t.ride = r
                        /\ tasks' = Retire(tasks, t)]_vars

\* a cancellation of a ride whose matching had started has just ended
C22_Witness ==
    \E r \in RideIds :
        /\ Sent("ride:cancelled", r)
        /\ rides[r].status = "CANCELLED"
        /\ timer[r] # "none"
        /\ r \notin rideState

\* C23: once a ride is COMPLETED, CANCELLED or NO_DRIVERS and no handler on it
\* is in flight, it has no live-state entry.
C23_LiveStateCleared ==
    \A r \in RideIds :
        (/\ rides[r].status \in TerminalStatuses
         /\ \A t \in BagToSet(tasks) : t.ride # r)
        => r \notin rideState

\* C26: durable first.  A notification of a status change is sent only once
\* the write of that status has been applied: in the step of the write for
\* the events sent right after it, and by a handler that is past its write
\* for ride:completed and ride:cancelled.
C26_DurableFirst ==
    [][\A r \in RideIds :
          /\ (Sends("ride:accepted", r) \/ Sends("ride:accept_confirmed", r))
                 => rides'[r].status = "ACCEPTED"
          /\ Sends("ride:driver_arrived", r) => rides'[r].status = "ARRIVED"
          /\ Sends("ride:trip_started", r) => rides'[r].status = "IN_PROGRESS"
          /\ Sends("ride:no_drivers", r) => rides'[r].status = "NO_DRIVERS"
          /\ Sends("ride:completed", r)
                 => \E t \in BagToSet(tasks) :
                        /\ t.op = "complete" /\ t.pc = "clearRideState" /\ t.ride = r
                        /\ tasks' = Retire(tasks, t)
          /\ Sends("ride:cancelled", r)
                 => \E t \in BagToSet(tasks) :
                        /\ t.op = "cancel" /\ t.pc = "clearRideState" /\ t.ride = r
                        /\ tasks' = Retire(tasks, t)
          /\ Starts("complete", "createEarning", r) => rides'[r].status = "COMPLETED"
          /\ Starts("complete", "updateDriver", r) => Pending("complete", r)
          /\ Starts("complete", "clearRideState", r) => Pending("complete", r)
          /\ Starts("cancel", "clearRideState", r)
                 => Pending("cancel", r) /\ rides'[r].status = "CANCELLED"]_vars

\* every kind of notification has been sent at least once: here the rider is
\* told of a completion while the ride's row says COMPLETED
C26_Witness ==
    \E r \in RideIds :
        /\ Sent("ride:completed", r)
        /\ rides[r].status = "COMPLETED"
        /\ rides[r].driverId # Null
        /\ confirmed[r] # {}

\* C30: a scheduled ride is never matched: it is offered to no driver, its
\* expiry timer is never set, no matching or expiry handler runs on it, and
\* it never becomes NO_DRIVERS.
C30_ScheduledNotMatched ==
    \A r \in RideIds :
        rides[r].isScheduled =>
            /\ offers[r] = {}
            /\ timer[r] = "none"
            /\ noDriversSent[r] = 0
            /\ rides[r].status # "NO_DRIVERS"
            /\ ~Pending("match", r) /\ ~Pending("expiry", r)

\* POST /request has answered 201 for a scheduled ride while an eligible
\* driver was within reach of its pickup
C30_Witness ==
    \E r \in RideIds :
        /\ rides[r].isScheduled
        /\ \E e \in emitted : e.ev = "http:201" /\ e.ride = r
        /\ EligibleNear(r) # {}

\* the Earning row the step has created
Created == earnings'[Len(earnings')]

\* C24: the Earning row created at completion carries the ride's totalFare as
\* grossAmount and its platformFee, netAmount = grossAmount - platformFee,
\* tip 0 and status PENDING, and its driverId is the driver assigned to the ride.
C24_EarningRecord ==
    [][Len(earnings') > Len(earnings) =>
          /\ Created.grossAmount = rides[Created.rideId].totalFare
          /\ Created.platformFee = rides[Created.rideId].platformFee
          /\ Created.netAmount = Created.grossAmount - Created.platformFee
          /\ Created.tip = 0
          /\ Created.status = "PENDING"
          /\ Created.driverId = rides[Created.rideId].driverId]_vars

\* C25: the money fields of a ride are fixed at creation: no step changes
\* totalFare, platformFee or driverEarnings of an existing ride; only the tip
\* handler changes a ride's tip, and it changes nothing else of the row; a tip
\* is accepted only for a COMPLETED ride of the rider who sends it.
C25_FareImmutable ==
    [][\A r \in RideIds :
          /\ rides[r].status # "NONE"
                 => \A f \in FareFields : rides'[r][f] = rides[r][f]
          /\ rides'[r].tip # rides[r].tip
                 => /\ \E t \in BagToSet(tasks) :
                           /\ t.op = "tip" /\ t.pc = "update" /\ t.ride = r
                           /\ CopiesIn(t, tasks') < CopiesIn(t, tasks)
                    /\ rides'[r] = [rides[r] EXCEPT !.tip = rides'[r].tip]
          /\ \A t \in BagToSet(tasks') :
                 (/\ t.op = "tip" /\ t.pc = "update" /\ t.ride = r
                  /\ CopiesIn(t, tasks') > CopiesIn(t, tasks))
                 => /\ rides[r].status = "COMPLETED"
                    /\ rides[r].userId = t.who]_vars

\* the tip of a completed ride has been written and answered, and the ride
\* still carries the fare it was created with
C25_Witness ==
    \E r \in RideIds, promoDiscount \in PromoDiscounts :
        /\ rides[r].tip \in TipAmounts
        /\ rides[r].status = "COMPLETED"
        /\ \A f \in FareFields : rides[r][f] = TripRide(promoDiscount)[f]
        /\ \E e \in emitted : e.ev = "http:200" /\ e.room = "user" /\ e.ride = r

\* C27: when a call to the store rejects while a driver's accept is being
\* processed, that driver is sent ride:accept_failed and nothing else happens:
\* the ride's row, its offers and its expiry timer are as before and every
\* other handler goes on, so the ride stays REQUESTED without a driver.
C27_AcceptFailureIsolated ==
    [][/\ \A t \in BagToSet(tasks) :
              AcceptThrows(t)
              => /\ Ev("ride:accept_failed", "driver", t.who, t.ride) \in emitted'
                 /\ rides' = rides /\ offers' = offers /\ timer' = timer
                 /\ tasks' = Retire(tasks, t)
       /\ \A d \in ActiveDrivers, r \in RideIds :
              AcceptRideThrows(d, r)
              => /\ Ev("ride:accept_failed", "driver", d, r) \in emitted'
                 /\ rides' = rides /\ offers' = offers /\ timer' = timer
                 /\ tasks' = tasks]_vars

\* a driver has just been told that the accept failed while the ride is still
\* REQUESTED without a driver, offered to two drivers, its timer running
C27_Witness ==
    \E r \in RideIds, d \in ActiveDrivers :
        /\ Ev("ride:accept_failed", "driver", d, r) \in emitted
        /\ rides[r].status = "REQUESTED" /\ rides[r].driverId = Null
        /\ offers[r] = ActiveDrivers
        /\ timer[r] = "armed"
        /\ ~Pending("accept", r)

\* C28: when a call to Redis or to the store rejects inside
\* startDriverMatching, the failure is handled as "no candidates": it is not
\* left as an unhandled rejection, and the ride goes on to NO_DRIVERS instead
\* of staying REQUESTED with no matching in progress and no timer set.
C28_MatchFailureIsNoDrivers ==
    [][\A t \in BagToSet(tasks) :
          (t.op = "match" /\ MatchThrows(t))
          => /\ \A e \in emitted' : e.ev # "unhandledRejection"
             /\ \/ rides'[t.ride].status = "NO_DRIVERS"
                \/ Pending("match", t.ride)' \/ timer'[t.ride] = "armed"]_vars

\* the step fires one disconnect timer of driver d
Fires(d) == graceTimers'[d] < graceTimers[d]

\* the step starts the removal of driver d by a disconnect timer
StartsRemoval(d) ==
    \E t \in BagToSet(tasks') :
        /\ t.op = "grace" /\ t.pc = "update" /\ t.who = d
        /\ CopiesIn(t, tasks') > CopiesIn(t, tasks)

\* C29: disconnect grace period.  A disconnect by itself neither marks the
\* driver offline nor removes them from the geo index; when the timer fires
\* for a driver who has no socket, the removal starts, marks the driver
\* offline and ends with the driver out of the index; when it fires for a
\* driver who reconnected and whose new socket is still connected, nothing
\* is removed and nothing is marked.
C29_GracePeriod ==
    [][\A d \in ActiveDrivers :
          /\ liveSockets'[d] # liveSockets[d]
                 => /\ drivers' = drivers /\ geoIndex' = geoIndex
                    /\ driverLocKey' = driverLocKey /\ tasks' = tasks
          /\ (Fires(d) /\ liveSockets[d] = {}) => StartsRemoval(d)
          /\ (Fires(d) /\ connectedDrivers[d] \in liveSockets[d])
                 => /\ drivers' = drivers /\ geoIndex' = geoIndex
                    /\ driverLocKey' = driverLocKey /\ tasks' = tasks
          /\ \A t \in BagToSet(tasks) :
                 (t.op = "grace" /\ t.who = d /\ CopiesIn(t, tasks') < CopiesIn(t, tasks))
                 => /\ ~drivers'[d].isOnline
                    /\ t.pc = "zrem" => geoIndex'[d] = NoPos /\ driverLocKey'[d] = NoPos]_vars

\* one driver has reconnected on a new socket and the timer of the old one has
\* fired without effect; another stayed disconnected and has been removed
C29_Witness ==
    \E d1, d2 \in ActiveDrivers :
        /\ liveSockets[d1] = {2} /\ connectedDrivers[d1] = 2 /\ graceTimers[d1] = 0
        /\ drivers[d1].isOnline /\ geoIndex[d1] # NoPos
        /\ liveSockets[d2] = {} /\ graceTimers[d2] = 0
        /\ ~drivers[d2].isOnline /\ geoIndex[d2] = NoPos /\ driverLocKey[d2] = NoPos
        /\ tasks = EmptyBag

\* C31: cancel against complete.  A ride is never CANCELLED while an Earning
\* row exists for it, and no step turns a COMPLETED ride into a CANCELLED one.
C31_CancelVersusComplete ==
    /\ [](\A r \in RideIds : rides[r].status = "CANCELLED" => EarningsOf(r) = {})
    /\ [][\A r \in RideIds :
             rides[r].status = "COMPLETED" => rides'[r].status # "CANCELLED"]_vars

\* C32: a ride's driverId is only ever a driver that was sent ride:request
\* for that ride; a scheduled ride, for which no round is started, has none.
C32_AssignedWasOffered ==
    \A r \in RideIds :
        rides[r].driverId # Null => rides[r].driverId \in offers[r]

\* C33: only the assigned driver advances a ride.  driver:arrived,
\* driver:start_trip and driver:complete_trip from a driver who is not the
\* ride's driverId leave the ride's status as it was and start no completion
\* (no Earning row, no counter increment) for the sender.
C33_OnlyAssignedAdvances ==
    [][\A d \in ActiveDrivers, r \in RideIds :
          ((DriverArrived(d, r) \/ StartTrip(d, r) \/ CompleteTrip(d, r))
           /\ rides[r].driverId # d)
          => /\ rides'[r].status = rides[r].status
             /\ \A t \in BagToSet(tasks') :
                    (t.op = "complete" /\ t.who = d)
                    => CopiesIn(t, tasks') = CopiesIn(t, tasks)]_vars

\* the rides of status ACCEPTED, ARRIVED or IN_PROGRESS whose driverId is d
AssignedRides(d) ==
    {r \in RideIds : rides[r].driverId = d
                     /\ rides[r].status \in {"ACCEPTED", "ARRIVED", "IN_PROGRESS"}}

\* C35: a driver is assigned to at most one active ride at any time.
C35_OneActiveRidePerDriver ==
    \A d \in ActiveDrivers : Cardinality(AssignedRides(d)) <= 1

\* the rides for which driver d has had a completion handler create an Earning
CompletedBy(d) == {earnings[i].rideId : i \in {j \in DOMAIN earnings : earnings[j].driverId = d}}

RECURSIVE SumNet(_, _)
\* the sum of netAmount over the first n Earning rows of driver d
SumNet(d, n) ==
    IF n = 0 THEN 0
    ELSE SumNet(d, n - 1) + (IF earnings[n].driverId = d THEN earnings[n].netAmount ELSE 0)

\* C36: once no completion is in flight, each driver's totalRides is the
\* number of distinct rides the driver completed, which is the number of the
\* driver's Earning rows, and totalEarnings is the sum of their netAmount.
C36_DriverCounters ==
    \A d \in ActiveDrivers :
        (\A t \in BagToSet(tasks) : t.op # "complete")
        => /\ drivers[d].totalRides = Cardinality(CompletedBy(d))
           /\ drivers[d].totalRides
                  = Cardinality({j \in DOMAIN earnings : earnings[j].driverId = d})
           /\ drivers[d].totalEarnings = SumNet(d, Len(earnings))

\* C37: once no tip and no completion is in flight on a ride, each of the
\* ride's Earning rows carries the ride's tip.
C37_TipConsistency ==
    \A r \in RideIds :
        (\A t \in BagToSet(tasks) : t.ride = r => t.op \notin {"tip", "complete"})
        => \A i \in EarningsOf(r) : earnings[i].tip = rides[r].tip

\* C34: a step that sends ride:accept_failed to a driver changes no ride, and
\* the handler that sends it has written nothing before: an accept handler
\* writes only in the step that sends ride:accept_confirmed.
C34_FailedAcceptChangesNothing ==
    [][\A d \in ActiveDrivers, r \in RideIds :
          /\ Ev("ride:accept_failed", "driver", d, r) \in emitted'
                 => rides' = rides /\ confirmed' = confirmed
          /\ (rides'[r].driverId = d /\ rides[r].driverId # d)
                 => Ev("ride:accept_confirmed", "driver", d, r) \in emitted']_vars

\* a driver's accept has just failed on a call that rejected, after another
\* driver had taken the ride
C34_Witness ==
    \E r \in RideIds, d, d2 \in ActiveDrivers :
        /\ d # d2
        /\ Ev("ride:accept_failed", "driver", d, r) \in emitted
        /\ rides[r].status = "ACCEPTED" /\ rides[r].driverId = d2
        /\ confirmed[r] = {d2}

\* C38: a disconnect timer starts the removal of a driver (marking offline,
\* removing from the geo index) only when the driver has no connected socket,
\* and only when no timer of a later disconnect of that driver is pending.
C38_GraceTimerSockets ==
    [][\A d \in ActiveDrivers :
          StartsRemoval(d) => liveSockets[d] = {} /\ graceTimers'[d] = 0]_vars

\* the request that created payout p has finished its earning.updateMany
PayoutSettled(p) ==
    ~\E t \in BagToSet(tasks) : t.op = "payout" /\ t.pc = "updateMany" /\ t.list[3] = p

\* C39: each Earning record is included in at most one payout transfer; once
\* a payout's request has finished, every earning of its transfer is PAID_OUT
\* with that payout's id; and an earning that was in no transfer, such as one
\* created after the payout's read, is never marked paid.
C39_EachEarningPaidOnce ==
    /\ \A i, j \in DOMAIN transfers :
           i # j => transfers[i].earnings \cap transfers[j].earnings = {}
    /\ \A p \in DOMAIN payouts :
           PayoutSettled(p) =>
               \A e \in transfers[payouts[p].stripeTransferId].earnings :
                   earnings[e].status = "PAID_OUT" /\ earnings[e].payoutId = p
    /\ \A e \in DOMAIN earnings :
           earnings[e].status # "PENDING" =>
               \E k \in DOMAIN transfers : e \in transfers[k].earnings

====
